---- MODULE Spec2Model ----
(***************************************************************************)
(* A model of tf2logs: the sparse time series of timeseries.py and the     *)
(* log-line grammar, entity registry and metric stores of parser.py.       *)
(*                                                                         *)
(* A datetime is an integer count of ticks since the Unix epoch, with      *)
(* TicksPerSecond ticks in a second, so that a datetime can carry a        *)
(* fraction of a second as Python's does (microseconds).  None is the      *)
(* empty sequence and a present optional value x is <<x>>.                 *)
(***************************************************************************)
EXTENDS Integers, Sequences, FiniteSets, TLC

\* ---------------------------------------------------------------- bounds

\* Resolution of a datetime: ticks in one second.
TicksPerSecond == 2
\* The datetimes handed to a series directly lie in -SeriesSpan..SeriesSpan ticks.
SeriesSpan == 4
\* Calls made on the series under test.
MaxOps == 4
\* Lines of one batch.
MaxLines == 3

\* Objects in a graph handed to the Encoder, and references held by one.
MaxObjects == 3

MaxThings == 2

\* ------------------------------------------------------------- optionals

None == <<>>

Some(x) == <<x>>

Val(o) == o[1]

\* ------------------------------------------------- timeseries.py: series

\* int(x) of Python for the rational n/d: truncation toward zero.
PyInt(n, d) == IF n >= 0 THEN n \div d ELSE -((-n) \div d)

\* datetime.timestamp() is ts / TicksPerSecond seconds; int() truncates it,
\* // floors to the interval, fromtimestamp() makes a datetime again.
floor_time(interval, ts) ==
    ((PyInt(ts, TicksPerSecond) \div interval) * interval) * TicksPerSecond

\* SparseTimeSeries.__init__: bounds unset, no stored value, datatype int,
\* keep_last_value False.
NewSeries(interval, aggregator) ==
    [ interval        |-> interval,
      aggregator      |-> aggregator,
      keep_last_value |-> FALSE,
      first_timestamp |-> None,
      last_timestamp  |-> None,
      values          |-> << >> ]

\* aggregate that keeps the new value whatever the aggregator.
aggregate_new(aggregator, old, new) == new

\* The aggregator of a series: the default keeps the new value, the one the
\* metric stores pass adds.
aggregate(aggregator, old, new) ==
    IF aggregator = "sum" THEN old + new ELSE new

\* f with key k set to v, the key added when absent (dict assignment).
DictSet(f, k, v) ==
    [ x \in (DOMAIN f) \cup {k} |-> IF x = k THEN v ELSE f[x] ]

\* SparseTimeSeries.__setitem__ past its two type checks.
setitem_store(s, key, value) ==
    LET base_key == floor_time(s.interval, key)
        first1   == IF s.first_timestamp = None THEN Some(base_key)
                    ELSE s.first_timestamp
        last1    == IF s.last_timestamp = None THEN Some(base_key)
                    ELSE s.last_timestamp
        first2   == IF base_key < Val(first1) THEN Some(base_key) ELSE first1
        last2    == IF base_key > Val(last1) THEN Some(base_key) ELSE last1
        stored   == IF base_key \in DOMAIN s.values
                    THEN aggregate(s.aggregator, s.values[base_key], value)
                    ELSE value
    IN  [ s EXCEPT !.first_timestamp = first2,
                   !.last_timestamp  = last2,
                   !.values          = DictSet(s.values, base_key, stored) ]

\* setitem that checks the type of the value after it has stored it.
setitem_late_check(s, keytype, key, valtype, value) ==
    IF keytype # "datetime" THEN [ s |-> s, exc |-> "TypeError" ]
    ELSE IF valtype # "int"
    THEN [ s |-> setitem_store(s, key, value), exc |-> "ValueError" ]
    ELSE [ s |-> setitem_store(s, key, value), exc |-> "none" ]

\* SparseTimeSeries.__setitem__: the series after the call and the exception
\* raised ("none" when it returns).  keytype and valtype are the Python types
\* of the key and of the value; the series' datatype is int.
setitem(s, keytype, key, valtype, value) ==
    IF keytype # "datetime" THEN [ s |-> s, exc |-> "TypeError" ]
    ELSE IF valtype # "int" THEN [ s |-> s, exc |-> "ValueError" ]
    ELSE [ s |-> setitem_store(s, key, value), exc |-> "none" ]

\* set_start that takes the timestamp given whatever the bound was.
set_start_always(s, ts) ==
    [ s EXCEPT !.first_timestamp = Some(floor_time(s.interval, ts)) ]

\* SparseTimeSeries.set_start
set_start(s, ts) ==
    LET base_key == floor_time(s.interval, ts)
    IN  IF s.first_timestamp = None \/ base_key < Val(s.first_timestamp)
        THEN [ s EXCEPT !.first_timestamp = Some(base_key) ]
        ELSE s

\* SparseTimeSeries.set_end
set_end(s, ts) ==
    LET base_key == floor_time(s.interval, ts)
    IN  IF s.last_timestamp = None \/ base_key > Val(s.last_timestamp)
        THEN [ s EXCEPT !.last_timestamp = Some(base_key) ]
        ELSE s

\* SparseTimeSeries.__len__ under len(): the number returned, or ValueError
\* when __len__ returns a negative number.
len(s) ==
    IF s.first_timestamp = None \/ s.last_timestamp = None
    THEN [ exc |-> "none", value |-> 0 ]
    ELSE LET n(d) == PyInt(d, TicksPerSecond) \div s.interval + 1
             r(v) == IF v < 0 THEN [ exc |-> "ValueError", value |-> 0 ]
                     ELSE [ exc |-> "none", value |-> v ]
         IN  r(n(Val(s.last_timestamp) - Val(s.first_timestamp)))

\* The loop of __iter__: current, current + delta, ... while <= last.
RECURSIVE iter_from(_, _, _)
iter_from(current, last, delta) ==
    IF current <= last
    THEN << current >> \o iter_from(current + delta, last, delta)
    ELSE << >>

\* SparseTimeSeries.__iter__, run to its end: the keys yielded, or the
\* exception of len(self).
iter(s) ==
    LET r(n) ==
            IF n.exc # "none" THEN [ exc |-> n.exc, keys |-> << >> ]
            ELSE IF n.value = 0 THEN [ exc |-> "none", keys |-> << >> ]
            ELSE [ exc  |-> "none",
                   keys |-> iter_from(Val(s.first_timestamp),
                                      Val(s.last_timestamp),
                                      s.interval * TicksPerSecond) ]
    IN  r(len(s))

\* self.datatype() for the datatype int.
datatype == 0

\* keep_last_scan that returns at the first stored bucket it meets.
RECURSIVE keep_first_scan(_, _, _, _)
keep_first_scan(s, keys, base_key, last_value) ==
    IF keys = << >> THEN None
    ELSE IF Head(keys) \in DOMAIN s.values /\ last_value = None
    THEN keep_first_scan(s, Tail(keys), base_key, Some(s.values[Head(keys)]))
    ELSE IF Head(keys) = base_key /\ last_value # None THEN last_value
    ELSE keep_first_scan(s, Tail(keys), base_key, last_value)

\* The keep_last_value loop of __getitem__ over the keys still to come:
\* Some(value) when it returns inside the loop, None when it falls through.
RECURSIVE keep_last_scan(_, _, _, _)
keep_last_scan(s, keys, base_key, last_value) ==
    IF keys = << >> THEN None
    ELSE IF Head(keys) \in DOMAIN s.values
    THEN keep_last_scan(s, Tail(keys), base_key, Some(s.values[Head(keys)]))
    ELSE IF Head(keys) = base_key /\ last_value # None THEN last_value
    ELSE keep_last_scan(s, Tail(keys), base_key, last_value)

\* SparseTimeSeries.__getitem__ on a datetime key whose bucket is not
\* stored.  Comparing None with a datetime raises TypeError; the chained
\* comparison stops at its first false half.
getitem_unstored(s, base_key) ==
    IF s.first_timestamp = None THEN [ exc |-> "TypeError", value |-> 0 ]
    ELSE IF ~(Val(s.first_timestamp) <= base_key)
    THEN [ exc |-> "KeyError", value |-> 0 ]
    ELSE IF s.last_timestamp = None THEN [ exc |-> "TypeError", value |-> 0 ]
    ELSE IF ~(base_key <= Val(s.last_timestamp))
    THEN [ exc |-> "KeyError", value |-> 0 ]
    ELSE IF ~s.keep_last_value THEN [ exc |-> "none", value |-> datatype ]
    ELSE LET found(v) == IF v = None THEN [ exc |-> "none", value |-> datatype ]
                         ELSE [ exc |-> "none", value |-> Val(v) ]
             scan(it) == IF it.exc # "none" THEN [ exc |-> it.exc, value |-> 0 ]
                         ELSE found(keep_last_scan(s, it.keys, base_key, None))
         IN  scan(iter(s))

\* SparseTimeSeries.__getitem__: the exception raised ("none" when it
\* returns) and the value returned.
getitem(s, keytype, key) ==
    LET read(base_key) ==
            IF base_key \in DOMAIN s.values
            THEN [ exc |-> "none", value |-> s.values[base_key] ]
            ELSE getitem_unstored(s, base_key)
    IN  IF keytype # "datetime" THEN [ exc |-> "TypeError", value |-> 0 ]
        ELSE read(floor_time(s.interval, key))

\* SparseTimeSeries.__contains__: False for a key that is no datetime; for a
\* datetime, floor_time(key) names a variable the method does not have (its
\* parameter is ts), so the call raises NameError before any comparison.
contains(s, keytype, ts) ==
    IF keytype # "datetime" THEN [ exc |-> "none", found |-> FALSE ]
    ELSE [ exc |-> "NameError", found |-> FALSE ]

\* ------------------------------------------------ parser.py: vocabulary

\* User.__init__'s default interval, which every metric store inherits.
UserInterval == 10

\* The keys of User.counters, as reset_counters builds them.
CounterNames ==
    { "seen", "kills", "assists", "constructions", "destructions", "damage",
      "damage_by_weapon", "realdamage", "realdamage_by_weapon",
      "damage_received", "deaths", "heals_given", "heals_received",
      "suicides", "med_picks", "points_captured", "points_blocked",
      "dominations", "revenges", "headshots", "airshots", "headshot_kills",
      "backstab_kills", "extinguishes", "feigns", "feigns_triggered" }

\* A user mention is the quoted fragment "username<server_id><steam_id><team>",
\* held as its four parts.  Text without that structure is a fragment whose
\* last three parts are empty.
Frag(text) ==
    [ username |-> text, server_id |-> "", steam_id |-> "", team |-> "" ]

NoFrag == Frag("")

\* Strings matching \d+ among the server ids drawn.
DigitStrings == { "1" }

\* Strings matching \[(?:[UIMGAPCgTcLa]:[0-4]:\d+)\]|BOT|Console among the
\* steam ids drawn; "STEAM_0:1:333" (the older id format) does not.
SteamIdStrings == { "[U:1:111]", "[U:1:222]", "BOT", "Console" }

\* Strings matching \w* among the team names drawn; "Red Team" does not.
WordStrings == { "", "Red", "Blue", "Spectator", "Unassigned" }

\* user_re with a steam_id group that accepts any text.
user_re_match_any_steam_id(frag) ==
    /\ frag.server_id \in DigitStrings
    /\ frag.team \in WordStrings

\* re.match(patterns["user_re"], user_text) is not None
user_re_match(frag) ==
    /\ frag.server_id \in DigitStrings
    /\ frag.steam_id \in SteamIdStrings
    /\ frag.team \in WordStrings

\* ------------------------------------------------------ parser.py: User

\* A key of Counter._values: a User object (by identity) or a string.
UserKey(id) == [ kind |-> "user", id |-> id, s |-> "" ]

StrKey(s) == [ kind |-> "str", id |-> 0, s |-> s ]

\* User.reset_counters: every counter a Counter with no key.
reset_counters(u) ==
    [ u EXCEPT !.counters = [ c \in CounterNames |-> << >> ] ]

\* User.__init__ on a fragment that matches user_re.
NewUser(frag) ==
    reset_counters(
        [ valid          |-> TRUE,
          name           |-> frag.username,
          steam_id       |-> frag.steam_id,
          team           |-> frag.team,
          original_team  |-> frag.team,
          server_id      |-> frag.server_id,
          player_class   |-> None,
          played_classes |-> {},
          counters       |-> << >> ])

\* update that takes the original team from every mention.
update_overwriting(self, other) ==
    [ self EXCEPT !.name = other.name,
                  !.original_team = other.team,
                  !.team = other.team ]

\* User.update: self refreshed from the User built from the latest mention.
update(self, other) ==
    [ self EXCEPT !.name = other.name,
                  !.original_team =
                      IF self.original_team \notin { "Blue", "Red" }
                      THEN other.team ELSE self.original_team,
                  !.team = other.team ]

\* User.update_class
update_class(u, player_class) ==
    [ u EXCEPT !.played_classes = @ \cup { player_class },
               !.player_class = Some(player_class) ]

\* Counter.__getitem__: the series of key, created when absent.
counter_getitem(counter, key) ==
    IF key \in DOMAIN counter THEN counter
    ELSE DictSet(counter, key, NewSeries(UserInterval, "sum"))

\* user.counters[cname][key][ts] = value, for a valid user: the user after
\* the statement and the exception raised.
counter_setitem(u, cname, key, ts, valtype, value) ==
    LET store(counter, r) ==
            [ u   |-> [ u EXCEPT !.counters[cname] = DictSet(counter, key, r.s) ],
              exc |-> r.exc ]
        write(counter) ==
            store(counter, setitem(counter[key], "datetime", ts, valtype, value))
    IN  write(counter_getitem(u.counters[cname], key))

\* Counter._values.values(): the child series in the order their keys were
\* first used (a dict keeps insertion order).
dict_values(counter, order) ==
    [ i \in 1 .. Len(order) |-> counter[order[i]] ]

\* SparseTimeSeries.values(), run to its end: self[ts] for each ts of
\* __iter__, or the exception of the iteration.
series_values(s) ==
    LET r(it) ==
            IF it.exc # "none" THEN [ exc |-> it.exc, values |-> << >> ]
            ELSE [ exc    |-> "none",
                   values |-> [ i \in 1 .. Len(it.keys) |->
                                  getitem(s, "datetime", it.keys[i]).value ] ]
    IN  r(iter(s))

\* sum() of the i-th value of each list.
RECURSIVE sum_column(_, _)
sum_column(lists, i) ==
    IF lists = << >> THEN 0
    ELSE Head(lists)[i] + sum_column(Tail(lists), i)

\* The length of the shortest list (zip stops at the first that ends).
RECURSIVE shortest(_)
shortest(lists) ==
    IF Len(lists) = 1 THEN Len(lists[1])
    ELSE LET rest == shortest(Tail(lists))
         IN  IF Len(lists[1]) < rest THEN Len(lists[1]) ELSE rest

\* Totaller.__iter__, run to its end: the keys of the first child; with no
\* child next() raises StopIteration inside the generator, which reaches the
\* caller as RuntimeError.
Totaller_iter(children) ==
    IF children = << >> THEN [ exc |-> "RuntimeError", keys |-> << >> ]
    ELSE iter(children[1])

\* Totaller.values that totals the first child only.
Totaller_values_first_child(children) ==
    IF children = << >> THEN [ exc |-> "none", values |-> << >> ]
    ELSE series_values(children[1])

\* Totaller.values(), run to its end: zip() draws the first value of each
\* child in turn, so the first child that is empty ends it and the first that
\* raises fails it; then the i-th values are summed up to the shortest child.
Totaller_values(children) ==
    LET lists == [ i \in 1 .. Len(children) |-> series_values(children[i]) ]
        stops == { i \in 1 .. Len(children) :
                     lists[i].exc # "none" \/ lists[i].values = << >> }
        first_stop == CHOOSE i \in stops : \A j \in stops : i <= j
        columns == [ i \in 1 .. Len(children) |-> lists[i].values ]
    IN  IF children = << >> THEN [ exc |-> "none", values |-> << >> ]
        ELSE IF stops # {}
        THEN [ exc |-> lists[first_stop].exc, values |-> << >> ]
        ELSE [ exc    |-> "none",
               values |-> [ i \in 1 .. shortest(columns) |->
                              sum_column(columns, i) ] ]

\* Totaller.items that totals, at each key of the first child found within
\* the bounds of every child, the reads of that key.
Totaller_items_by_timestamp(children) ==
    LET within(s, ts) ==
            /\ s.first_timestamp # None /\ s.last_timestamp # None
            /\ Val(s.first_timestamp) <= ts /\ ts <= Val(s.last_timestamp)
        shared(keys) ==
            SelectSeq(keys, LAMBDA ts :
                \A i \in 1 .. Len(children) : within(children[i], ts))
        total(ts) ==
            sum_column([ i \in 1 .. Len(children) |->
                           << getitem(children[i], "datetime", ts).value >> ], 1)
        pairs(keys) ==
            [ i \in 1 .. Len(keys) |-> << keys[i], total(keys[i]) >> ]
        r(k) == IF k.exc # "none" THEN [ exc |-> k.exc, items |-> << >> ]
                ELSE [ exc |-> "none", items |-> pairs(shared(k.keys)) ]
    IN  r(Totaller_iter(children))

\* Totaller.items(), run to its end: zip() draws a key, then a value; it
\* ends when either runs out and fails when either raises.
Totaller_items(children) ==
    LET pairs(keys, values) ==
            [ i \in 1 .. (IF Len(keys) < Len(values) THEN Len(keys)
                          ELSE Len(values)) |-> << keys[i], values[i] >> ]
        zipped(k, v) ==
            IF v.exc # "none" THEN [ exc |-> v.exc, items |-> << >> ]
            ELSE [ exc |-> "none", items |-> pairs(k.keys, v.values) ]
        r(k) == IF k.exc # "none" THEN [ exc |-> k.exc, items |-> << >> ]
                ELSE IF k.keys = << >> THEN [ exc |-> "none", items |-> << >> ]
                ELSE zipped(k, Totaller_values(children))
    IN  r(Totaller_iter(children))

\* User.set_counter_durations on the series of one counter: set_start and
\* set_end on each.
set_counter_durations(counter, start, end) ==
    [ key \in DOMAIN counter |->
        set_end(set_start(counter[key], start), end) ]

\* ----------------------------------------------------- parser.py: World

\* The World while one line is handled: the registry (steam id -> User
\* object), the live User objects by identity, the identity the next retained
\* User object gets, the three timestamps, and the exception in flight.  The
\* invalid User (valid = False) carries no other attribute; it is object 0.
Invalid == 0

\* lookup_known that records no sighting.
lookup_known_unseen(W, frag) ==
    LET id == W.known_users[frag.steam_id]
    IN  [ w   |-> [ W EXCEPT !.users[id] = update(@, NewUser(frag)) ],
          ret |-> id ]

\* lookup_known that leaves the registered User as it was.
lookup_known_stale(W, frag) ==
    LET id == W.known_users[frag.steam_id]
        seen(known_user) ==
            counter_setitem(known_user, "seen", StrKey("user_lookup"),
                            Val(W.timestamp), "int", 1).u
    IN  [ w   |-> [ W EXCEPT !.users[id] = seen(@) ],
          ret |-> id ]

\* World.user_lookup, the branch of a steam id already registered.
lookup_known(W, frag) ==
    LET id == W.known_users[frag.steam_id]
        seen(known_user) ==
            counter_setitem(known_user, "seen", StrKey("user_lookup"),
                            Val(W.timestamp), "int", 1).u
    IN  [ w   |-> [ W EXCEPT !.users[id] = seen(update(@, NewUser(frag))) ],
          ret |-> id ]

\* World.user_lookup, the branch of a steam id not yet registered.
lookup_new(W, frag) ==
    LET id == W.next_id
    IN  [ w   |-> [ W EXCEPT !.known_users = DictSet(@, frag.steam_id, id),
                             !.users       = DictSet(@, id, NewUser(frag)),
                             !.next_id     = id + 1 ],
          ret |-> id ]

\* World.user_lookup: the World after the call and the User it returns.
user_lookup(W, frag) ==
    IF ~user_re_match(frag) THEN [ w |-> W, ret |-> Invalid ]
    ELSE IF frag.steam_id \in DOMAIN W.known_users THEN lookup_known(W, frag)
    ELSE lookup_new(W, frag)

\* Line.parse_timestamp
parse_timestamp(W, time) == [ W EXCEPT !.timestamp = Some(time) ]

\* ------------------------------------------- parser.py: payload coercion

\* int(value) succeeds on these payload strings, with these results.
IntValue == ("50" :> 50) @@ ("30" :> 30) @@ ("40" :> 40)

\* float(value) succeeds on these (and on every string int() accepts).
FloatStrings == { "50.5" }

\* value.endswith('f') and float(value[:-1]) succeeds on these.
FloatFStrings == { "0.5f" }

\* value.split() is three strings int() accepts.
LocationStrings == { "1 2 3" }

\* A fragment that is plain text, without the structure of a mention.
IsText(frag) == frag = Frag(frag.username)

\* One coerced payload value: its Python type, and the int, the User or the
\* raw string it is.
Coerced(type, int, user, str) ==
    [ type |-> type, int |-> int, user |-> user, str |-> str ]

\* coerce_value that tries float before int.
coerce_value_float_first(W, raw) ==
    IF IsText(raw)
       /\ raw.username \in DOMAIN IntValue \cup FloatStrings \cup FloatFStrings
    THEN [ w |-> W, v |-> Coerced("float", 0, Invalid, raw.username) ]
    ELSE LET looked_up(r) ==
                 IF r.ret # Invalid
                 THEN [ w |-> r.w, v |-> Coerced("user", 0, r.ret, "") ]
                 ELSE IF IsText(raw) /\ raw.username \in LocationStrings
                 THEN [ w |-> r.w, v |-> Coerced("Location", 0, Invalid, raw.username) ]
                 ELSE [ w |-> r.w, v |-> Coerced("str", 0, Invalid, raw.username) ]
         IN  looked_up(user_lookup(W, raw))

\* DataLine.coerce_data on one value: the World after it (the cascade resolves
\* a value as a user by user_lookup) and the coerced value.
coerce_value(W, raw) ==
    IF IsText(raw) /\ raw.username \in DOMAIN IntValue
    THEN [ w |-> W, v |-> Coerced("int", IntValue[raw.username], Invalid, raw.username) ]
    ELSE IF IsText(raw) /\ raw.username \in FloatStrings \cup FloatFStrings
    THEN [ w |-> W, v |-> Coerced("float", 0, Invalid, raw.username) ]
    ELSE LET looked_up(r) ==
                 IF r.ret # Invalid
                 THEN [ w |-> r.w, v |-> Coerced("user", 0, r.ret, "") ]
                 ELSE IF IsText(raw) /\ raw.username \in LocationStrings
                 THEN [ w |-> r.w, v |-> Coerced("Location", 0, Invalid, raw.username) ]
                 ELSE [ w |-> r.w, v |-> Coerced("str", 0, Invalid, raw.username) ]
         IN  looked_up(user_lookup(W, raw))

\* DataLine.parse_values: items is the list of (name, value) pairs that
\* re.findall extracts, in the order of the line; the result is the World
\* after every value is coerced and the dict of coerced values.
RECURSIVE coerce_data(_, _, _)
coerce_data(W, items, done) ==
    IF items = << >> THEN [ w |-> W, data |-> done ]
    ELSE LET rest(r) == coerce_data(r.w, Tail(items),
                                    DictSet(done, Head(items).name, r.v))
         IN  rest(coerce_value(W, Head(items).value))

parse_values(W, items) == coerce_data(W, items, << >>)

\* ------------------------------------------------ parser.py: statements

\* The key a coerced payload value makes in a Counter.
DataKey(v) == IF v.type = "user" THEN UserKey(v.user) ELSE StrKey(v.str)

\* self.data[field] == text, for a literal text that is no number
DataIs(data, field, text) ==
    data[field].type = "str" /\ data[field].str = text

\* Raise exc unless an exception is already in flight.
raise(W, exc) == IF W.exc # "none" THEN W ELSE [ W EXCEPT !.exc = exc ]

\* user.counters[cname][key][ts] = value, value of Python type valtype.
\* Reading .counters of the invalid User raises AttributeError; the series
\* of key is created before the write is type-checked.
put(W, uid, cname, key, ts, valtype, value) ==
    IF W.exc # "none" THEN W
    ELSE IF uid = Invalid THEN raise(W, "AttributeError")
    ELSE LET done(r) == [ W EXCEPT !.users[uid] = r.u, !.exc = r.exc ]
         IN  done(counter_setitem(W.users[uid], cname, key, ts, valtype, value))

\* user.counters[cname][key][ts] = self.data[field]: Python evaluates the
\* right-hand side first (KeyError when the payload lacks the field).
put_data(W, data, field, uid, cname, key, ts) ==
    IF W.exc # "none" THEN W
    ELSE IF field \notin DOMAIN data THEN raise(W, "KeyError")
    ELSE put(W, uid, cname, key, ts, data[field].type, data[field].int)

\* user.counters[cname][self.data["weapon"]][ts] = self.data[field]
put_data_by_weapon(W, data, field, uid, cname, ts) ==
    IF W.exc # "none" THEN W
    ELSE IF field \notin DOMAIN data THEN raise(W, "KeyError")
    ELSE IF uid = Invalid THEN raise(W, "AttributeError")
    ELSE IF "weapon" \notin DOMAIN data THEN raise(W, "KeyError")
    ELSE put_data(W, data, field, uid, cname, DataKey(data["weapon"]), ts)

\* ------------------------------------------- parser.py: update_world

\* damage_update_world with the raw damage written where the real damage goes.
damage_update_world_raw_only(W, e) ==
    LET ts == Val(e.timestamp)
        S  == e.source
        T  == e.target
        d  == e.data
        W1 == put_data(W, d, "damage", S, "damage", UserKey(T), ts)
        W2 == put_data_by_weapon(W1, d, "damage", S, "damage_by_weapon", ts)
        W3 == put_data(W2, d, "damage", S, "realdamage", UserKey(T), ts)
        W4 == put_data(W3, d, "damage", T, "damage_received", UserKey(S), ts)
        W5 == put_data_by_weapon(W4, d, "damage", S, "realdamage_by_weapon", ts)
        W6 == IF "headshot" \in DOMAIN d
              THEN put(W5, S, "headshots", UserKey(T), ts, "int", 1) ELSE W5
    IN  IF "airshot" \in DOMAIN d
        THEN put(W6, S, "airshots", UserKey(T), ts, "int", 1) ELSE W6

\* DamagePlayerTriggerLine.update_world
damage_update_world(W, e) ==
    LET ts == Val(e.timestamp)
        S  == e.source
        T  == e.target
        d  == e.data
        W1 == put_data(W, d, "damage", S, "damage", UserKey(T), ts)
        W2 == put_data_by_weapon(W1, d, "damage", S, "damage_by_weapon", ts)
        rd == IF "realdamage" \in DOMAIN d THEN "realdamage" ELSE "damage"
        W3 == put_data(W2, d, rd, S, "realdamage", UserKey(T), ts)
        W4 == put_data(W3, d, rd, T, "damage_received", UserKey(S), ts)
        W5 == put_data_by_weapon(W4, d, rd, S, "realdamage_by_weapon", ts)
        W6 == IF "headshot" \in DOMAIN d
              THEN put(W5, S, "headshots", UserKey(T), ts, "int", 1) ELSE W5
    IN  IF "airshot" \in DOMAIN d
        THEN put(W6, S, "airshots", UserKey(T), ts, "int", 1) ELSE W6

\* KillLine.update_world, the feign_death branch, which returns early.
kill_feign(W, e) ==
    LET ts == Val(e.timestamp)
        W1 == put(W, e.source, "feigns_triggered", UserKey(e.target), ts, "int", 1)
    IN  put(W1, e.target, "feigns", UserKey(e.source), ts, "int", 1)

\* KillLine.update_world, the customkill counters of a kill that counts.
kill_custom(W, e) ==
    LET ts == Val(e.timestamp)
    IN  IF "customkill" \notin DOMAIN e.data THEN W
        ELSE IF DataIs(e.data, "customkill", "headshot")
        THEN put(W, e.source, "headshot_kills", UserKey(e.target), ts, "int", 1)
        ELSE IF DataIs(e.data, "customkill", "backstab")
        THEN put(W, e.source, "backstab_kills", UserKey(e.target), ts, "int", 1)
        ELSE W

\* kill_count with the medic pick decided by the class of the killer.
kill_count_by_source_class(W, e) ==
    LET ts == Val(e.timestamp)
        W1 == put(W, e.source, "kills", UserKey(e.target), ts, "int", 1)
        med_pick(W2) ==
            IF W2.exc # "none" THEN W2
            ELSE IF e.target = Invalid THEN raise(W2, "AttributeError")
            ELSE IF W2.users[e.source].player_class = Some("Medic")
            THEN put(W2, e.source, "med_picks", UserKey(e.target), ts, "int", 1)
            ELSE W2
    IN  med_pick(put(W1, e.target, "deaths", UserKey(e.source), ts, "int", 1))

\* KillLine.update_world, the kill, death and medic-pick counters.  Reading
\* player_class of the invalid User raises AttributeError.
kill_count(W, e) ==
    LET ts == Val(e.timestamp)
        W1 == put(W, e.source, "kills", UserKey(e.target), ts, "int", 1)
        med_pick(W2) ==
            IF W2.exc # "none" THEN W2
            ELSE IF e.target = Invalid THEN raise(W2, "AttributeError")
            ELSE IF W2.users[e.target].player_class = Some("Medic")
            THEN put(W2, e.source, "med_picks", UserKey(e.target), ts, "int", 1)
            ELSE W2
    IN  med_pick(put(W1, e.target, "deaths", UserKey(e.source), ts, "int", 1))

\* kill_update_world with a feign_death branch that does not return.
kill_update_world_no_return(W, e) ==
    IF "customkill" \in DOMAIN e.data /\ DataIs(e.data, "customkill", "feign_death")
    THEN kill_count(kill_custom(kill_feign(W, e), e), e)
    ELSE kill_count(kill_custom(W, e), e)

\* KillLine.update_world
kill_update_world(W, e) ==
    IF "customkill" \in DOMAIN e.data /\ DataIs(e.data, "customkill", "feign_death")
    THEN kill_feign(W, e)
    ELSE kill_count(kill_custom(W, e), e)

\* tournament_update_world that keeps the counters of the players.
tournament_update_world_keep(W, e) ==
    [ W EXCEPT !.first_timestamp = e.timestamp ]

\* TournamentModeLine.update_world
tournament_update_world(W, e) ==
    LET registered == { W.known_users[k] : k \in DOMAIN W.known_users }
    IN  [ W EXCEPT !.users = [ id \in DOMAIN W.users |->
                                 IF id \in registered
                                 THEN reset_counters(W.users[id])
                                 ELSE W.users[id] ],
                   !.first_timestamp = e.timestamp ]

\* LogStartLine.update_world: KeyError when the payload has no file item.
\* The file names drawn are left strings by coerce_data.
logstart_update_world(W, e) ==
    IF "file" \notin DOMAIN e.data THEN raise(W, "KeyError")
    ELSE [ W EXCEPT !.filename = e.data["file"].str ]

\* LoadMapLine.update_world
loadmap_update_world(W, e) == [ W EXCEPT !.mapname = e.text ]

\* TeamNameLine.update_world
teamname_update_world(W, e) == [ W EXCEPT !.team_names[e.team] = e.name ]

\* WorldTriggerLine.update_world
worldtrigger_update_world(W, e) == [ W EXCEPT !.last_timestamp = e.timestamp ]

\* --------------------------------------------------- parser.py: parse

\* A raw line is held as the text form it has and the groups a matcher
\* captures from it: the seconds of its date, the quoted source and target
\* fragments, the quoted team and class, and the (name "value") items.
\* Line.__init__ before parse: a Line object with no attribute set by parse.
NewEvent(cls) ==
    [ cls       |-> cls,
      matched   |-> TRUE,
      timestamp |-> None,
      source    |-> Invalid,
      target    |-> Invalid,
      text      |-> "",
      team      |-> "",
      name      |-> "",
      data      |-> << >> ]

\* The datetime parse_timestamp builds: whole seconds.
LineTime(line) == line.seconds * TicksPerSecond

\* TimeLine.parse
TimeLine_parse(cls, W, line) ==
    [ w |-> parse_timestamp(W, LineTime(line)),
      e |-> [ NewEvent(cls) EXCEPT !.timestamp = Some(LineTime(line)) ] ]

\* SourceLine.parse and SourceTextLine.parse
SourceLine_parse(cls, W, line) ==
    LET source(p, s) == [ w |-> s.w, e |-> [ p.e EXCEPT !.source = s.ret ] ]
        timed(p)     == source(p, user_lookup(p.w, line.source_user))
    IN  timed(TimeLine_parse(cls, W, line))

\* TextLine.parse
TextLine_parse(cls, W, line) ==
    LET text(p) == [ w |-> p.w, e |-> [ p.e EXCEPT !.text = line.text ] ]
    IN  text(TimeLine_parse(cls, W, line))

\* DataLine.parse
DataLine_parse(cls, W, line) ==
    LET data(p, d) == [ w |-> d.w, e |-> [ p.e EXCEPT !.data = d.data ] ]
        timed(p)   == data(p, parse_values(p.w, line.items))
    IN  timed(TimeLine_parse(cls, W, line))

\* TextDataLine.parse
TextDataLine_parse(cls, W, line) ==
    LET data(p, d) == [ w |-> d.w, e |-> [ p.e EXCEPT !.data = d.data ] ]
        text(p)    == data(p, parse_values(p.w, line.items))
    IN  text(TextLine_parse(cls, W, line))

\* TeamNameLine.parse: no date in the line, the timestamp is None and the
\* World's is left alone.
TeamNameLine_parse(cls, W, line) ==
    [ w |-> W,
      e |-> [ NewEvent(cls) EXCEPT !.team = line.team, !.name = line.text ] ]

\* SourceClassLine.parse: update_class on the invalid User raises
\* AttributeError (it has no played_classes).
SourceClassLine_parse(cls, W, line) ==
    LET class(p) ==
            IF p.e.source = Invalid
            THEN [ w |-> raise(p.w, "AttributeError"), e |-> p.e ]
            ELSE [ w |-> [ p.w EXCEPT !.users[p.e.source] =
                                          update_class(@, line.class) ],
                   e |-> p.e ]
    IN  class(SourceLine_parse(cls, W, line))

\* SourceTeamLine.parse: the team attribute is assigned, also on the invalid
\* User, which is then dropped with the line.
SourceTeamLine_parse(cls, W, line) ==
    LET team(p) ==
            IF p.e.source = Invalid THEN p
            ELSE [ w |-> [ p.w EXCEPT !.users[p.e.source].team = line.team ],
                   e |-> p.e ]
    IN  team(SourceLine_parse(cls, W, line))

\* SourceDataLine.parse
SourceDataLine_parse(cls, W, line) ==
    LET data(p, d) == [ w |-> d.w, e |-> [ p.e EXCEPT !.data = d.data ] ]
        source(p)  == data(p, parse_values(p.w, line.items))
    IN  source(SourceLine_parse(cls, W, line))

\* ServerCvarLine.parse: coerce_data on the one pair { key: value }.
ServerCvarLine_parse(cls, W, line) ==
    LET data(p, d) == [ w |-> d.w, e |-> [ p.e EXCEPT !.data = d.data ] ]
        timed(p)   == data(p, coerce_data(p.w, line.items, << >>))
    IN  timed(TimeLine_parse(cls, W, line))

\* SourceTargetDataLine.parse and SourceTargetWeaponDataLine.parse
SourceTargetDataLine_parse(cls, W, line) ==
    LET data(p, t, d) ==
            [ w |-> d.w, e |-> [ p.e EXCEPT !.target = t.ret, !.data = d.data ] ]
        target(p, t) == data(p, t, parse_values(t.w, line.items))
        source(p)    == target(p, user_lookup(p.w, line.target_user))
    IN  source(SourceLine_parse(cls, W, line))

\* parse of a class that inherits Line's matcher "$": the match has no group,
\* so parse_timestamp(**values) raises TypeError before anything is set.
NoGroups_parse(cls, W, line) ==
    [ w |-> raise(W, "TypeError"), e |-> NewEvent(cls) ]

\* ------------------------------------------------ parser.py: identify

\* The subclasses of Line that define no matcher and inherit Line's "$".
InheritedMatcher ==
    { "TimeLine", "TeamLine", "TextLine", "SourceLine", "SourceClassLine",
      "SourceTeamLine", "SourceTextLine", "DataLine", "SourceDataLine",
      "TeamDataLine", "TextDataLine", "TeamTextDataLine",
      "SourceWeaponDataLine", "SourceTargetLine", "SourceTargetDataLine",
      "SourceTargetWeaponDataLine" }

\* The shapes of the catalog that are modelled, each with its own matcher.
Shapes ==
    { "KillLine", "DamagePlayerTriggerLine", "TournamentModeLine",
      "PlayerJoinTeamLine", "PlayerChangeClassLine", "SayLine",
      "ServerCvarLine", "PlayerConnectedLine", "PlayerValidatedLine",
      "PlayerChangeNameLine", "PlayerDisconnectedLine", "LogStartLine",
      "LoadMapLine", "TeamNameLine", "WorldTriggerLine" }

\* Line.find_children, as far as it is modelled.
find_children == InheritedMatcher \cup Shapes

\* The text form each shape's matcher accepts.
ShapeForm ==
    [ cls \in Shapes |->
        CASE cls = "KillLine"                -> "kill"
          [] cls = "DamagePlayerTriggerLine" -> "damage"
          [] cls = "TournamentModeLine"      -> "tournament"
          [] cls = "PlayerJoinTeamLine"      -> "jointeam"
          [] cls = "PlayerChangeClassLine"   -> "changeclass"
          [] cls = "SayLine"                 -> "say"
          [] cls = "ServerCvarLine"          -> "cvar"
          [] cls = "PlayerConnectedLine"     -> "connected"
          [] cls = "PlayerValidatedLine"     -> "validated"
          [] cls = "PlayerChangeNameLine"    -> "changename"
          [] cls = "PlayerDisconnectedLine"  -> "disconnected"
          [] cls = "LogStartLine"            -> "logstart"
          [] cls = "LoadMapLine"             -> "loadmap"
          [] cls = "TeamNameLine"            -> "teamname"
          [] cls = "WorldTriggerLine"        -> "worldtrigger" ]

\* A say line whose text holds the characters " = ", as in
\*   "Alice<1><[U:1:111]><Red>" say "a" = "b"
\* SayLine's text group takes a" = "b; ServerCvarLine's key group, .*? with
\* nothing to stop it at a quote, takes everything up to the " = " and its
\* value group takes b.
QuotedEqualsShapes == { "SayLine", "ServerCvarLine" }

\* cls.matcher.match(line) is not None.  "$" matches the empty line and the
\* bare newline only.
matcher(cls, line) ==
    IF cls \in Shapes
    THEN \/ line.form = ShapeForm[cls]
         \/ line.form = "say_eq" /\ cls \in QuotedEqualsShapes
    ELSE line.form = "empty"

\* The parse method a class resolves to.
parse(cls, W, line) ==
    CASE cls \in { "KillLine", "DamagePlayerTriggerLine" } ->
             SourceTargetDataLine_parse(cls, W, line)
      [] cls = "TournamentModeLine"    -> TimeLine_parse(cls, W, line)
      [] cls = "PlayerJoinTeamLine"    -> SourceTeamLine_parse(cls, W, line)
      [] cls = "PlayerChangeClassLine" -> SourceClassLine_parse(cls, W, line)
      [] cls \in { "SayLine", "PlayerConnectedLine", "PlayerValidatedLine",
                   "PlayerChangeNameLine" } ->
             SourceLine_parse(cls, W, line)
      [] cls = "PlayerDisconnectedLine" -> SourceDataLine_parse(cls, W, line)
      [] cls = "ServerCvarLine"        -> ServerCvarLine_parse(cls, W, line)
      [] cls = "LogStartLine"          -> DataLine_parse(cls, W, line)
      [] cls = "LoadMapLine"           -> TextLine_parse(cls, W, line)
      [] cls = "TeamNameLine"          -> TeamNameLine_parse(cls, W, line)
      [] cls = "WorldTriggerLine"      -> TextDataLine_parse(cls, W, line)
      [] OTHER                         -> NoGroups_parse(cls, W, line)

\* The update_world method of a class, when it has one.
update_world(cls, W, e) ==
    CASE cls = "KillLine"                -> kill_update_world(W, e)
      [] cls = "DamagePlayerTriggerLine" -> damage_update_world(W, e)
      [] cls = "TournamentModeLine"      -> tournament_update_world(W, e)
      [] cls = "LogStartLine"            -> logstart_update_world(W, e)
      [] cls = "LoadMapLine"             -> loadmap_update_world(W, e)
      [] cls = "TeamNameLine"            -> teamname_update_world(W, e)
      [] cls = "WorldTriggerLine"        -> worldtrigger_update_world(W, e)
      [] OTHER                           -> W

\* Line.__init__ of a class whose matcher matches the line: parse, then
\* update_world.  The payloads drawn name no position, so update_positions
\* finds nothing to write.
construct(cls, W, line) ==
    LET parsed(p) ==
            IF p.w.exc # "none" THEN p
            ELSE [ w |-> update_world(cls, p.w, p.e), e |-> p.e ]
    IN  parsed(parse(cls, W, line))

\* Line(world, line) that takes the date of the line although it does not
\* match.
Line_construct_timed(W, line) ==
    [ w |-> parse_timestamp(W, LineTime(line)),
      e |-> [ NewEvent("Line") EXCEPT !.matched = (line.form = "empty") ] ]

\* Line(world, line), the base class: on a line "$" does not match, the
\* no-op event with matched = False.
Line_construct(W, line) ==
    [ w |-> W,
      e |-> [ NewEvent("Line") EXCEPT !.matched = (line.form = "empty") ] ]

\* identify that constructs whichever subclass the set yields first, whether
\* or not its matcher accepts the line.
identify_unmatched(W, line) ==
    { construct(cls, W, line) : cls \in Shapes }

\* Line.identify: the outcomes of the call.  The subclasses are tried in
\* the order of a set, which Python does not fix; a subclass that does not
\* match leaves nothing behind, and the first that matches is constructed
\* and returned, or raises.
identify(W, line) ==
    LET matching == { cls \in find_children : matcher(cls, line) }
    IN  IF matching = {} THEN { Line_construct(W, line) }
        ELSE { construct(cls, W, line) : cls \in matching }

\* ----------------------------------------------------- serializers.py

\* An object graph is a heap: object identity -> the class of the object and
\* the objects it refers to, in order (the "things" of test_encoding.Thing;
\* for a User, the players that are keys of its metric stores).

\* The classes that define repr_json and from_json: Thing does; no class of
\* parser.py or timeseries.py does.
HasReprJson == { "Thing" }

\* The JSON text, as the tree it spells.
JsonObject(class, id, things) ==
    [ tag |-> "object", class |-> class, id |-> id, things |-> things ]

JsonBackref(id) ==
    [ tag |-> "backref", class |-> "", id |-> id, things |-> << >> ]

\* Encoder.__init__ and the encoder's markers (the objects being encoded,
\* kept when check_circular is on).
NewEncoder == [ exc |-> "none", encoded |-> {}, markers |-> {} ]

\* Encoder.default(o): a back-reference for an object already encoded, or
\* the object marked encoded and spelled out; super().default(o) raises
\* TypeError for an object without repr_json.
Encoder_default(heap, o, st) ==
    IF heap[o].cls \notin HasReprJson
    THEN [ st |-> [ st EXCEPT !.exc = "TypeError" ], backref |-> FALSE ]
    ELSE IF o \in st.encoded THEN [ st |-> st, backref |-> TRUE ]
    ELSE [ st |-> [ st EXCEPT !.encoded = @ \cup { o } ], backref |-> FALSE ]

\* JSONEncoder.iterencode on object o, which Encoder inherits: with
\* check_circular an object met while it is being encoded raises ValueError
\* before default is called; otherwise default(o) is encoded in its place,
\* the things it holds in order.
RECURSIVE iterencode(_, _, _, _)
RECURSIVE iterencode_list(_, _, _, _, _)
iterencode(heap, o, st, check_circular) ==
    LET object(inner) ==
            [ st  |-> [ inner.st EXCEPT !.markers = @ \ { o } ],
              doc |-> JsonObject(heap[o].cls, o, inner.docs) ]
        encoded(d) ==
            IF d.st.exc # "none" THEN [ st |-> d.st, doc |-> JsonBackref(0) ]
            ELSE IF d.backref THEN [ st |-> d.st, doc |-> JsonBackref(o) ]
            ELSE object(iterencode_list(heap, heap[o].things,
                                        [ d.st EXCEPT !.markers = @ \cup { o } ],
                                        check_circular, << >>))
    IN  IF check_circular /\ o \in st.markers
        THEN [ st |-> [ st EXCEPT !.exc = "ValueError" ], doc |-> JsonBackref(0) ]
        ELSE encoded(Encoder_default(heap, o, st))

iterencode_list(heap, things, st, check_circular, docs) ==
    IF things = << >> \/ st.exc # "none" THEN [ st |-> st, docs |-> docs ]
    ELSE LET rest(r) == iterencode_list(heap, Tail(things), r.st,
                                        check_circular, Append(docs, r.doc))
         IN  rest(iterencode(heap, Head(things), st, check_circular))

\* json.dumps(o, cls=Encoder, check_circular=...): the exception raised or
\* the text.
dumps(heap, o, check_circular) ==
    LET r(e) == [ exc |-> e.st.exc, doc |-> e.doc ]
    IN  r(iterencode(heap, o, NewEncoder, check_circular))

\* Decoder.__init__: nothing decoded yet; heap holds the objects from_json
\* makes, next the identity of the next one.
NewDecoder == [ exc |-> "none", decoded |-> << >>, heap |-> << >>, next |-> 1 ]

\* Decoder.dict_to_obj(d), d the JSON object whose members are decoded
\* already (things): a back-reference is looked up in self.decoded, KeyError
\* when its id is not there; otherwise from_json makes a new object, which
\* is recorded under the id.
dict_to_obj(d, things, st) ==
    IF d.tag = "backref"
    THEN IF d.id \in DOMAIN st.decoded
         THEN [ st |-> st, ret |-> st.decoded[d.id] ]
         ELSE [ st |-> [ st EXCEPT !.exc = "KeyError" ], ret |-> 0 ]
    ELSE [ st  |-> [ st EXCEPT
                       !.heap = DictSet(@, st.next, [ cls |-> d.class,
                                                      things |-> things ]),
                       !.decoded = DictSet(@, d.id, st.next),
                       !.next = @ + 1 ],
           ret |-> st.next ]

\* JSONDecoder.decode with object_hook = dict_to_obj: the hook gets each
\* JSON object once its members are parsed, the innermost and leftmost
\* first.
RECURSIVE decode(_, _)
RECURSIVE decode_list(_, _, _)
decode(doc, st) ==
    LET hooked(m) ==
            IF m.st.exc # "none" THEN [ st |-> m.st, ret |-> 0 ]
            ELSE dict_to_obj(doc, m.rets, m.st)
    IN  hooked(decode_list(doc.things, st, << >>))

decode_list(docs, st, rets) ==
    IF docs = << >> \/ st.exc # "none" THEN [ st |-> st, rets |-> rets ]
    ELSE LET rest(r) == decode_list(Tail(docs), r.st, Append(rets, r.ret))
         IN  rest(decode(Head(docs), st))

\* json.loads(text, cls=Decoder): the exception raised, or the object
\* returned, the objects made and the ids they were recorded under.
loads(doc) ==
    LET r(d) == [ exc |-> d.st.exc, root |-> d.ret, heap |-> d.st.heap,
                  decoded |-> d.st.decoded ]
    IN  r(decode(doc, NewDecoder))

\* ------------------------------------------------------------ the state

VARIABLES
    known_users,      \* World.known_users: steam id -> User object
    users,            \* the live User objects, by identity
    next_id,          \* the identity of the next User object retained
    timestamp,        \* World.timestamp
    first_timestamp,  \* World.first_timestamp
    last_timestamp,   \* World.last_timestamp
    filename,         \* World.filename
    mapname,          \* World.mapname
    team_names,       \* World.team_names
    line,             \* the raw line handed to Line.identify last
    event,            \* the Line object made of it (not returned on a raise)
    raised,           \* the exception that ended the batch, or "none"
    nlines,           \* lines handed to Line.identify
    series,           \* a SparseTimeSeries used on its own
    call,             \* the last call made on it
    ops,              \* calls made on it
    counter_values,   \* Counter._values of a Counter used on its own
    counter_order,    \* its keys in insertion order
    heap,             \* an object graph handed to the Encoder
    document,         \* the last json.dumps of it
    loaded            \* the json.loads of that text

world_vars ==
    << known_users, users, next_id, timestamp, first_timestamp,
       last_timestamp, filename, mapname, team_names, line, event, raised,
       nlines >>

series_vars == << series, call, ops >>

counter_vars == << counter_values, counter_order >>

codec_vars == << heap, document, loaded >>

vars == << world_vars, series_vars, counter_vars, codec_vars >>

\* The World of the state, no exception in flight.
World ==
    [ known_users     |-> known_users,
      users           |-> users,
      next_id         |-> next_id,
      timestamp       |-> timestamp,
      first_timestamp |-> first_timestamp,
      last_timestamp  |-> last_timestamp,
      filename        |-> filename,
      mapname         |-> mapname,
      team_names      |-> team_names,
      exc             |-> "none" ]

NoCall ==
    [ op |-> "none", keytype |-> "datetime", key |-> 0, valtype |-> "int",
      value |-> 0, exc |-> "none", keys |-> << >>, items |-> << >>,
      found |-> FALSE ]

RawLine(form, seconds, source, target, team, class, items) ==
    [ form |-> form, seconds |-> seconds, source_user |-> source,
      target_user |-> target, team |-> team, class |-> class,
      items |-> items, text |-> "" ]

\* The same line with its text (or name) group.
WithText(l, text) == [ l EXCEPT !.text = text ]

NoLine == RawLine("", 0, NoFrag, NoFrag, "", "", << >>)

\* No json.dumps yet, no json.loads yet.
NoDocument ==
    [ op |-> "none", root |-> 0, check_circular |-> TRUE, exc |-> "none",
      doc |-> JsonBackref(0) ]

NoLoaded ==
    [ op |-> "none", exc |-> "none", root |-> 0, heap |-> << >>,
      decoded |-> << >> ]

\* World.__init__, before any line.
WorldInit ==
    /\ known_users = << >>
    /\ users = << >>
    /\ next_id = 1
    /\ timestamp = None
    /\ first_timestamp = None
    /\ last_timestamp = None
    /\ filename = ""
    /\ mapname = ""
    /\ team_names = ("Red" :> "RED") @@ ("Blue" :> "BLU")
    /\ line = NoLine
    /\ event = [ NewEvent("") EXCEPT !.matched = FALSE ]
    /\ raised = "none"
    /\ nlines = 0

\* ----------------------------------------------------- the lines drawn

Mention(name, steam_id, team) ==
    [ username |-> name, server_id |-> "1", steam_id |-> steam_id, team |-> team ]

Alice == Mention("Alice", "[U:1:111]", "Red")

Bob == Mention("Bob", "[U:1:222]", "Blue")

\* A mention in the older steam id format, which user_re does not match.
Eve == Mention("Eve", "STEAM_0:1:333", "Red")

\* Mentions of a say line: one player under two names and three teams, a
\* second player, and the mention user_re rejects.
SayMentions ==
    { Alice, Mention("Al", "[U:1:111]", "Blue"),
      Mention("Al", "[U:1:111]", "Spectator"), Bob, Eve }

\* Mentions of the other lines with one user.
SoloMentions == { Alice, Bob, Eve }

\* Source and target of lines with both: two players either way, a player
\* on themself, an invalid target, an invalid source.
PairMentions ==
    { << Alice, Bob >>, << Bob, Alice >>, << Alice, Alice >>,
      << Alice, Eve >>, << Eve, Bob >> }

\* Seconds of the dates drawn: two buckets of UserInterval seconds, the
\* first date inside its bucket.
LineSeconds == { 105, 110 }

Item(name, text) == [ name |-> name, value |-> Frag(text) ]

KillItems ==
    { << >> } \cup
    { << Item("customkill", c) >> : c \in { "headshot", "backstab", "feign_death" } }

\* Payloads of a damage line that carry what update_world reads.
DamageItems ==
    { << Item("damage", "50"), Item("weapon", "scattergun") >>,
      << Item("damage", "30"), Item("weapon", "scattergun") >>,
      << Item("damage", "50"), Item("realdamage", "40"), Item("weapon", "scattergun") >>,
      << Item("damage", "30"), Item("weapon", "scattergun"), Item("headshot", "1") >> }

\* Payloads that lack the weapon or the damage, or give a damage that is
\* no integer.
BadDamageItems ==
    { << Item("damage", "50") >>,
      << Item("weapon", "scattergun") >>,
      << Item("damage", "50.5"), Item("weapon", "scattergun") >> }

KillLines ==
    { RawLine("kill", t, p[1], p[2], "", "", i) :
        t \in LineSeconds, p \in PairMentions, i \in KillItems }

DamageLines ==
    { RawLine("damage", t, p[1], p[2], "", "", i) :
        t \in LineSeconds, p \in PairMentions, i \in DamageItems }
    \cup { RawLine("damage", t, Alice, Bob, "", "", i) :
              t \in LineSeconds, i \in BadDamageItems }

TournamentLines ==
    { RawLine("tournament", t, NoFrag, NoFrag, "", "", << >>) : t \in LineSeconds }

JoinTeamLines ==
    { RawLine("jointeam", t, s, NoFrag, team, "", << >>) :
        t \in LineSeconds, s \in SoloMentions, team \in { "Blue", "Spectator" } }

ChangeClassLines ==
    { RawLine("changeclass", t, s, NoFrag, "", c, << >>) :
        t \in LineSeconds, s \in SoloMentions, c \in { "Medic", "Scout" } }

SayLines ==
    { RawLine("say", t, s, NoFrag, "", "", << >>) :
        t \in LineSeconds, s \in SayMentions }

\* Values for every branch of the coercion cascade: an integer, a float, a
\* float with a trailing f, three integers, three words that are not all
\* integers, a word, two mentions and the mention user_re rejects.
CoercedValues ==
    { Frag("30"), Frag("50.5"), Frag("0.5f"), Frag("1 2 3"), Frag("1 2 x"),
      Frag("b"), Alice, Bob, Eve }

\* Server cvar lines: "mp_timelimit" = "30" and "mp_tournament" = "b", and
\* "sv_tags" = each of these values.
CvarLines ==
    { RawLine("cvar", t, NoFrag, NoFrag, "", "", << Item(k[1], k[2]) >>) :
        t \in LineSeconds,
        k \in { << "mp_timelimit", "30" >>, << "mp_tournament", "b" >> } }
    \cup
    { RawLine("cvar", t, NoFrag, NoFrag, "", "",
              << [ name |-> "sv_tags", value |-> v ] >>) :
        t \in LineSeconds, v \in CoercedValues }

\* Say lines with the text a" = "b; the item is the pair ServerCvarLine
\* reads from the line.
SayEqLines ==
    { RawLine("say_eq", t, s, NoFrag, "", "", << Item("say_a", "b") >>) :
        t \in LineSeconds, s \in SoloMentions }

ConnectedLines ==
    { RawLine("connected", t, s, NoFrag, "", "", << >>) :
        t \in LineSeconds, s \in SayMentions }

ValidatedLines ==
    { RawLine("validated", t, s, NoFrag, "", "", << >>) :
        t \in LineSeconds, s \in SayMentions }

ChangeNameLines ==
    { RawLine("changename", t, s, NoFrag, "", "", << >>) :
        t \in LineSeconds, s \in SayMentions }

DisconnectedLines ==
    { RawLine("disconnected", t, s, NoFrag, "", "", i) :
        t \in LineSeconds, s \in SayMentions,
        i \in { << >>, << Item("reason", "Disconnect by user.") >> } }

\* Log file started, with its file item and without:
\*   L 10/01/2016 - 00:01:45: Log file started (file "logs/L1001000.log")
LogStartLines ==
    { RawLine("logstart", t, NoFrag, NoFrag, "", "", i) :
        t \in LineSeconds,
        i \in { << >>, << Item("file", "logs/L1001000.log") >> } }

\* Loading map "cp_badlands"
LoadMapLines ==
    { WithText(RawLine("loadmap", t, NoFrag, NoFrag, "", "", << >>),
               "cp_badlands") : t \in LineSeconds }

\* Red Team: Foo
TeamNameLines ==
    { WithText(RawLine("teamname", 0, NoFrag, NoFrag, team, "", << >>), "Foo") :
        team \in { "Red", "Blue" } }

\* World triggered "Round_Start"
WorldTriggerLines ==
    { WithText(RawLine("worldtrigger", t, NoFrag, NoFrag, "", "", << >>),
               "Round_Start") : t \in LineSeconds }

\* The empty line and the bare newline.
EmptyLines == { RawLine("empty", 0, NoFrag, NoFrag, "", "", << >>) }

\* A line no matcher accepts.
OtherLines == { RawLine("other", 0, NoFrag, NoFrag, "", "", << >>) }

\* --------------------------------------------------------- the actions

\* One turn of World.read_log_from_file: Line.identify on the next line.
\* An exception leaves the generator, and with it the batch.
Handle(l) ==
    /\ nlines < MaxLines
    /\ line' = l
    /\ \E out \in identify(World, l) :
        /\ known_users' = out.w.known_users
        /\ users' = out.w.users
        /\ next_id' = out.w.next_id
        /\ timestamp' = out.w.timestamp
        /\ first_timestamp' = out.w.first_timestamp
        /\ last_timestamp' = out.w.last_timestamp
        /\ filename' = out.w.filename
        /\ mapname' = out.w.mapname
        /\ team_names' = out.w.team_names
        /\ event' = out.e
        /\ raised' = out.w.exc
    /\ nlines' = nlines + 1
    /\ UNCHANGED << series_vars, counter_vars, codec_vars >>

Kill ==
    /\ raised = "none"
    /\ \E l \in KillLines : Handle(l)

Damage ==
    /\ raised = "none"
    /\ \E l \in DamageLines : Handle(l)

Tournament ==
    /\ raised = "none"
    /\ \E l \in TournamentLines : Handle(l)

JoinTeam ==
    /\ raised = "none"
    /\ \E l \in JoinTeamLines : Handle(l)

ChangeClass ==
    /\ raised = "none"
    /\ \E l \in ChangeClassLines : Handle(l)

Say ==
    /\ raised = "none"
    /\ \E l \in SayLines : Handle(l)

Empty ==
    /\ raised = "none"
    /\ \E l \in EmptyLines : Handle(l)

Other ==
    /\ raised = "none"
    /\ \E l \in OtherLines : Handle(l)

Init ==
    /\ WorldInit
    /\ series = NewSeries(1, "replace")
    /\ call = NoCall
    /\ ops = 0
    /\ counter_values = << >>
    /\ counter_order = << >>
    /\ heap = << >>
    /\ document = NoDocument
    /\ loaded = NoLoaded

Next ==
    \/ Kill
    \/ Damage
    \/ Tournament
    \/ JoinTeam
    \/ ChangeClass
    \/ Say
    \/ Empty
    \/ Other

Spec == Init /\ [][Next]_vars

\* -------------------------------- batches of presence and server lines

Cvar ==
    /\ raised = "none"
    /\ \E l \in CvarLines : Handle(l)

SayEq ==
    /\ raised = "none"
    /\ \E l \in SayEqLines : Handle(l)

Connected ==
    /\ raised = "none"
    /\ \E l \in ConnectedLines : Handle(l)

Validated ==
    /\ raised = "none"
    /\ \E l \in ValidatedLines : Handle(l)

ChangeName ==
    /\ raised = "none"
    /\ \E l \in ChangeNameLines : Handle(l)

Disconnected ==
    /\ raised = "none"
    /\ \E l \in DisconnectedLines : Handle(l)

LogStart ==
    /\ raised = "none"
    /\ \E l \in LogStartLines : Handle(l)

LoadMap ==
    /\ raised = "none"
    /\ \E l \in LoadMapLines : Handle(l)

TeamName ==
    /\ raised = "none"
    /\ \E l \in TeamNameLines : Handle(l)

WorldTrigger ==
    /\ raised = "none"
    /\ \E l \in WorldTriggerLines : Handle(l)

NextPresence ==
    \/ Say
    \/ SayEq
    \/ Cvar
    \/ Connected
    \/ Validated
    \/ ChangeName
    \/ Disconnected
    \/ LogStart
    \/ LoadMap
    \/ TeamName
    \/ WorldTrigger
    \/ Empty
    \/ Other

SpecPresence == Init /\ [][NextPresence]_vars

\* ------------------------------------------- a series used on its own

\* The datetimes handed to the series: before and after the epoch, on and
\* between whole seconds.
SeriesTimes == (-SeriesSpan) .. SeriesSpan

\* The intervals, in seconds, and the aggregators a series is built with.
SeriesIntervals == { 1, 2 }

SeriesAggregators == { "replace", "sum" }

SeriesValues == { 1, 2 }

SeriesCall(op, keytype, key, valtype, value, exc) ==
    [ op |-> op, keytype |-> keytype, key |-> key, valtype |-> valtype,
      value |-> value, exc |-> exc, keys |-> << >>, items |-> << >>,
      found |-> FALSE ]

\* The (key type, key, value type, value) of the writes drawn: every
\* datetime with every int, and one write for each way the types can be
\* wrong.
WriteInputs ==
    { << "datetime", key, "int", value >> :
        key \in SeriesTimes, value \in SeriesValues }
    \cup { << "str", 0, "int", 1 >>, << "datetime", 0, "float", 1 >>,
           << "str", 0, "float", 1 >> }

\* The (key type, key) of the reads drawn.
ReadInputs ==
    { << "datetime", key >> : key \in SeriesTimes } \cup { << "str", 0 >> }

\* series[key] = value
Write ==
    /\ ops < MaxOps
    /\ \E w \in WriteInputs :
        LET r == setitem(series, w[1], w[2], w[3], w[4])
        IN  /\ series' = r.s
            /\ call' = SeriesCall("setitem", w[1], w[2], w[3], w[4], r.exc)
    /\ ops' = ops + 1
    /\ UNCHANGED << world_vars, codec_vars, counter_vars >>

\* series.set_start(ts)
SetStart ==
    /\ ops < MaxOps
    /\ \E ts \in SeriesTimes :
        /\ series' = set_start(series, ts)
        /\ call' = SeriesCall("set_start", "datetime", ts, "int", 0, "none")
    /\ ops' = ops + 1
    /\ UNCHANGED << world_vars, codec_vars, counter_vars >>

\* series.set_end(ts)
SetEnd ==
    /\ ops < MaxOps
    /\ \E ts \in SeriesTimes :
        /\ series' = set_end(series, ts)
        /\ call' = SeriesCall("set_end", "datetime", ts, "int", 0, "none")
    /\ ops' = ops + 1
    /\ UNCHANGED << world_vars, codec_vars, counter_vars >>

\* series[key]
Read ==
    /\ ops < MaxOps
    /\ \E k \in ReadInputs :
        LET r == getitem(series, k[1], k[2])
        IN  call' = SeriesCall("getitem", k[1], k[2], "int", r.value, r.exc)
    /\ ops' = ops + 1
    /\ UNCHANGED << series, world_vars, codec_vars, counter_vars >>

\* len(series)
Length ==
    /\ ops < MaxOps
    /\ LET r == len(series)
       IN  call' = SeriesCall("len", "datetime", 0, "int", r.value, r.exc)
    /\ ops' = ops + 1
    /\ UNCHANGED << series, world_vars, codec_vars, counter_vars >>

\* list(series)
Iterate ==
    /\ ops < MaxOps
    /\ LET r == iter(series)
       IN  call' = [ SeriesCall("iter", "datetime", 0, "int", 0, r.exc)
                       EXCEPT !.keys = r.keys ]
    /\ ops' = ops + 1
    /\ UNCHANGED << series, world_vars, codec_vars, counter_vars >>

\* key in series
Contains ==
    /\ ops < MaxOps
    /\ \E k \in ReadInputs :
        LET r == contains(series, k[1], k[2])
        IN  call' = [ SeriesCall("contains", k[1], k[2], "int", 0, r.exc)
                        EXCEPT !.found = r.found ]
    /\ ops' = ops + 1
    /\ UNCHANGED << series, world_vars, codec_vars, counter_vars >>

SeriesInit ==
    /\ WorldInit
    /\ series \in { [ NewSeries(i, a) EXCEPT !.keep_last_value = k ] :
                       i \in SeriesIntervals, a \in SeriesAggregators,
                       k \in BOOLEAN }
    /\ call = NoCall
    /\ ops = 0
    /\ counter_values = << >>
    /\ counter_order = << >>
    /\ heap = << >>
    /\ document = NoDocument
    /\ loaded = NoLoaded

SeriesNext ==
    \/ Write
    \/ SetStart
    \/ SetEnd
    \/ Read
    \/ Length
    \/ Iterate
    \/ Contains

SpecSeries == SeriesInit /\ [][SeriesNext]_vars

\* ------------------------------------------ a Counter used on its own

\* The keys of the Counter and the datetimes handed to it: on and between
\* the boundaries of its ten-second buckets.
CounterKeys == { StrKey("x"), StrKey("y") }

CounterTimes == { 0, 10 * TicksPerSecond, 15 * TicksPerSecond,
                  20 * TicksPerSecond }

\* The children of the Counter of the state, in dict order.
Children == dict_values(counter_values, counter_order)

\* counter[key][ts] = value
CounterWrite ==
    /\ ops < MaxOps
    /\ \E key \in CounterKeys, ts \in CounterTimes, value \in SeriesValues :
        LET write(c) ==
                /\ counter_values' =
                       DictSet(c, key,
                               setitem(c[key], "datetime", ts, "int", value).s)
                /\ counter_order' =
                       IF key \in DOMAIN counter_values THEN counter_order
                       ELSE Append(counter_order, key)
                /\ call' = SeriesCall("counter_setitem", "datetime", ts,
                                      "int", value, "none")
        IN  write(counter_getitem(counter_values, key))
    /\ ops' = ops + 1
    /\ UNCHANGED << series, world_vars, codec_vars >>

\* counter[key], which creates the child of a key not seen before
CounterTouch ==
    /\ ops < MaxOps
    /\ \E key \in CounterKeys :
        /\ counter_values' = counter_getitem(counter_values, key)
        /\ counter_order' =
               IF key \in DOMAIN counter_values THEN counter_order
               ELSE Append(counter_order, key)
    /\ call' = SeriesCall("counter_getitem", "datetime", 0, "int", 0, "none")
    /\ ops' = ops + 1
    /\ UNCHANGED << series, world_vars, codec_vars >>

\* set_counter_durations(start, end), start no later than end
SetDurations ==
    /\ ops < MaxOps
    /\ \E start \in CounterTimes, end \in CounterTimes :
        /\ start <= end
        /\ counter_values' = set_counter_durations(counter_values, start, end)
        /\ call' = SeriesCall("set_counter_durations", "datetime", start,
                              "int", end, "none")
    /\ ops' = ops + 1
    /\ UNCHANGED << series, world_vars, codec_vars, counter_order >>

\* list(counter.totals.items())
Totals ==
    /\ ops < MaxOps
    /\ LET r == Totaller_items(Children)
       IN  call' = [ SeriesCall("totals_items", "datetime", 0, "int", 0, r.exc)
                       EXCEPT !.items = r.items ]
    /\ ops' = ops + 1
    /\ UNCHANGED << series, world_vars, codec_vars, counter_vars >>

CounterNext ==
    \/ CounterWrite
    \/ CounterTouch
    \/ SetDurations
    \/ Totals

SpecCounter == Init /\ [][CounterNext]_vars

\* ------------------------------- an object graph encoded and decoded

\* The classes of the objects drawn: one with repr_json and from_json, one
\* of parser.py.
CodecClasses == { "Thing", "User" }

\* A new object that refers to nothing.
NewObject ==
    /\ document.op = "none"
    /\ Len(heap) < MaxObjects
    /\ \E cls \in CodecClasses :
        heap' = Append(heap, [ cls |-> cls, things |-> << >> ])
    /\ UNCHANGED << world_vars, series_vars, counter_vars, document, loaded >>

\* a.things += (b,)
Link ==
    /\ document.op = "none"
    /\ \E a \in DOMAIN heap, b \in DOMAIN heap :
        /\ Len(heap[a].things) < MaxThings
        /\ heap' = [ heap EXCEPT ![a].things = Append(@, b) ]
    /\ UNCHANGED << world_vars, series_vars, counter_vars, document, loaded >>

\* json.dumps(root, cls=Encoder, check_circular=check)
Dumps ==
    /\ document.op = "none"
    /\ \E root \in DOMAIN heap, check \in BOOLEAN :
        LET r == dumps(heap, root, check)
        IN  document' = [ op |-> "dumps", root |-> root,
                          check_circular |-> check, exc |-> r.exc,
                          doc |-> r.doc ]
    /\ UNCHANGED << world_vars, series_vars, counter_vars, heap, loaded >>

\* json.loads(text, cls=Decoder) on the text of the dumps
Loads ==
    /\ document.op = "dumps"
    /\ document.exc = "none"
    /\ loaded.op = "none"
    /\ LET r == loads(document.doc)
       IN  loaded' = [ op |-> "loads", exc |-> r.exc, root |-> r.root,
                       heap |-> r.heap, decoded |-> r.decoded ]
    /\ UNCHANGED << world_vars, series_vars, counter_vars, heap, document >>

CodecNext ==
    \/ NewObject
    \/ Link
    \/ Dumps
    \/ Loads

SpecCodec == Init /\ [][CodecNext]_vars

\* ------------------------------------------------ reading the stores

\* The bucket of datetime t in a series of the given interval, as the
\* specification states it: floor(epochSeconds / interval) * interval.
ClaimBucket(interval, t) ==
    (t \div (interval * TicksPerSecond)) * (interval * TicksPerSecond)

\* The metric store cname of the User object id among the objects us; the
\* store of an object not made yet has no key.
CounterOf(us, id, cname) ==
    IF id \in DOMAIN us THEN us[id].counters[cname] ELSE << >>

\* What the series of key in that store holds in bucket b, 0 when the key
\* or the bucket is not stored.
StoredAt(us, id, cname, key, b) ==
    LET counter == CounterOf(us, id, cname)
    IN  IF key \in DOMAIN counter /\ b \in DOMAIN counter[key].values
        THEN counter[key].values[b] ELSE 0

\* Every bucket a line of the batch can fall in.
LineBuckets ==
    { ClaimBucket(UserInterval, sec * TicksPerSecond) : sec \in LineSeconds }

\* This step adds n to bucket b of the series and leaves its other buckets.
AddsOnlyAt(id, cname, key, b, n) ==
    \A bb \in LineBuckets :
        StoredAt(users', id, cname, key, bb) =
            StoredAt(users, id, cname, key, bb) + (IF bb = b THEN n ELSE 0)

\* This step handles one line.
Stepped == nlines' = nlines + 1

\* The raw text of the payload item of that name, "" when there is none.
ItemText(l, name) ==
    LET at == { i \in DOMAIN l.items : l.items[i].name = name }
    IN  IF at = {} THEN "" ELSE l.items[CHOOSE i \in at : TRUE].value.username

HasItem(l, name) == \E i \in DOMAIN l.items : l.items[i].name = name

\* The fragments a line hands to user_lookup, in the order of its parse.
Lookups(l) ==
    IF l.form \in { "kill", "damage" } THEN << l.source_user, l.target_user >>
    ELSE IF l.form \in { "say", "jointeam", "changeclass", "connected",
                         "validated", "changename", "disconnected" }
    THEN << l.source_user >>
    ELSE << >>

\* The last mention of steam id k among them.
LastMention(l, k) ==
    LET at == { i \in DOMAIN Lookups(l) :
                  user_re_match(Lookups(l)[i]) /\ Lookups(l)[i].steam_id = k }
    IN  Lookups(l)[CHOOSE i \in at : \A j \in at : j <= i]

\* The steam ids validly mentioned by a line.
MentionedKeys(l) ==
    { Lookups(l)[i].steam_id :
        i \in { j \in DOMAIN Lookups(l) : user_re_match(Lookups(l)[j]) } }

\* The class the player of steam id k has before this step, None for a
\* player the step registers.
ClassBefore(k) ==
    IF k \in DOMAIN known_users THEN users[known_users[k]].player_class ELSE None

\* ------------------------------------------------------------- claims

\* C1: a write of value v at timestamp t floors t to the bucket
\* b = floor(epoch(t) / interval) * interval, makes first <= b <= last (both
\* set to b when unset, otherwise first only lowered and last only raised),
\* leaves bucket b holding aggregator(old, v) if it was stored and v if not,
\* and changes no other bucket.
C1_WriteAt(b) ==
    LET v == call'.value
    IN  /\ series'.first_timestamp =
               IF series.first_timestamp = None \/ b < Val(series.first_timestamp)
               THEN Some(b) ELSE series.first_timestamp
        /\ series'.last_timestamp =
               IF series.last_timestamp = None \/ b > Val(series.last_timestamp)
               THEN Some(b) ELSE series.last_timestamp
        /\ Val(series'.first_timestamp) <= b
        /\ b <= Val(series'.last_timestamp)
        /\ DOMAIN series'.values = DOMAIN series.values \cup { b }
        /\ series'.values[b] =
               IF b \in DOMAIN series.values
               THEN aggregate(series.aggregator, series.values[b], v) ELSE v
        /\ \A k \in DOMAIN series.values \ { b } :
               series'.values[k] = series.values[k]

C1_Written ==
    /\ ops' = ops + 1
    /\ call'.op = "setitem"
    /\ call'.exc = "none"

C1_WriteFloorsAndAggregates ==
    [][C1_Written => C1_WriteAt(ClaimBucket(series.interval, call'.key))]_vars

\* C1, the part the code keeps: the same with b the bucket floor_time gives.
C1_WriteAtCodeBucket ==
    [][C1_Written => C1_WriteAt(floor_time(series.interval, call'.key))]_vars

\* C2: a kill line with valid source S and target T, with no customkill or
\* one of headshot / backstab, adds exactly 1 to S.kills[T] and to
\* T.deaths[S] in the bucket of its time, 1 to S.med_picks[T] exactly when
\* T's class is "Medic" when the kill is applied, and 1 to
\* S.headshot_kills[T] (S.backstab_kills[T]) exactly for that customkill.
C2_Kill ==
    /\ Stepped
    /\ line'.form = "kill"
    /\ user_re_match(line'.source_user)
    /\ user_re_match(line'.target_user)
    /\ ItemText(line', "customkill") \in { "", "headshot", "backstab" }

C2_Effect ==
    LET S  == known_users'[line'.source_user.steam_id]
        T  == known_users'[line'.target_user.steam_id]
        b  == ClaimBucket(UserInterval, LineTime(line'))
        ck == ItemText(line', "customkill")
        medic == ClassBefore(line'.target_user.steam_id) = Some("Medic")
    IN  /\ raised' = "none"
        /\ AddsOnlyAt(S, "kills", UserKey(T), b, 1)
        /\ AddsOnlyAt(T, "deaths", UserKey(S), b, 1)
        /\ AddsOnlyAt(S, "med_picks", UserKey(T), b, IF medic THEN 1 ELSE 0)
        /\ AddsOnlyAt(S, "headshot_kills", UserKey(T), b,
                      IF ck = "headshot" THEN 1 ELSE 0)
        /\ AddsOnlyAt(S, "backstab_kills", UserKey(T), b,
                      IF ck = "backstab" THEN 1 ELSE 0)

C2_KillCounts == [][C2_Kill => C2_Effect]_vars

\* A headshot kill of a Medic has been counted.
C2_Witness ==
    /\ raised = "none"
    /\ event.cls = "KillLine"
    /\ ItemText(line, "customkill") = "headshot"
    /\ event.source # event.target
    /\ users[event.target].player_class = Some("Medic")
    /\ StoredAt(users, event.source, "med_picks", UserKey(event.target),
                ClaimBucket(UserInterval, LineTime(line))) = 1

\* C3: a kill line with customkill = feign_death adds 1 to
\* source.feigns_triggered[target] and to target.feigns[source], and leaves
\* the source's kills, med_picks, headshot_kills and backstab_kills stores
\* and the target's deaths store as they were.
C3_Feign ==
    /\ Stepped
    /\ line'.form = "kill"
    /\ user_re_match(line'.source_user)
    /\ user_re_match(line'.target_user)
    /\ ItemText(line', "customkill") = "feign_death"

C3_Effect ==
    LET S == known_users'[line'.source_user.steam_id]
        T == known_users'[line'.target_user.steam_id]
        b == ClaimBucket(UserInterval, LineTime(line'))
    IN  /\ raised' = "none"
        /\ AddsOnlyAt(S, "feigns_triggered", UserKey(T), b, 1)
        /\ AddsOnlyAt(T, "feigns", UserKey(S), b, 1)
        /\ \A c \in { "kills", "med_picks", "headshot_kills", "backstab_kills" } :
               CounterOf(users', S, c) = CounterOf(users, S, c)
        /\ CounterOf(users', T, "deaths") = CounterOf(users, T, "deaths")

C3_FeignSkipsKill == [][C3_Feign => C3_Effect]_vars

\* A feigned death of a player who was killed before.
C3_Witness ==
    /\ raised = "none"
    /\ event.cls = "KillLine"
    /\ ItemText(line, "customkill") = "feign_death"
    /\ CounterOf(users, event.source, "feigns_triggered") # << >>
    /\ CounterOf(users, event.source, "kills") # << >>

\* C4: a damage trigger from S to T with raw damage d adds d to S.damage[T]
\* and to S.damage_by_weapon[weapon]; it adds the realdamage r of the
\* payload, or d when the payload has none, to S.realdamage[T] and to
\* T.damage_received[S]; triggers in one bucket add up.
C4_Damage ==
    /\ Stepped
    /\ line'.form = "damage"
    /\ user_re_match(line'.source_user)
    /\ user_re_match(line'.target_user)
    /\ ItemText(line', "damage") \in DOMAIN IntValue
    /\ HasItem(line', "weapon")
    /\ HasItem(line', "realdamage") => ItemText(line', "realdamage") \in DOMAIN IntValue

C4_Effect ==
    LET S == known_users'[line'.source_user.steam_id]
        T == known_users'[line'.target_user.steam_id]
        b == ClaimBucket(UserInterval, LineTime(line'))
        d == IntValue[ItemText(line', "damage")]
        r == IF HasItem(line', "realdamage")
             THEN IntValue[ItemText(line', "realdamage")] ELSE d
        weapon == StrKey(ItemText(line', "weapon"))
    IN  /\ raised' = "none"
        /\ AddsOnlyAt(S, "damage", UserKey(T), b, d)
        /\ AddsOnlyAt(S, "damage_by_weapon", weapon, b, d)
        /\ AddsOnlyAt(S, "realdamage", UserKey(T), b, r)
        /\ AddsOnlyAt(T, "damage_received", UserKey(S), b, r)

C4_DamageAdds == [][C4_Damage => C4_Effect]_vars

\* Damage of 50 and of 30 in one bucket, then a trigger with realdamage:
\* the damage of the bucket is 130, the real damage 120.
C4_Witness ==
    /\ raised = "none"
    /\ event.cls = "DamagePlayerTriggerLine"
    /\ HasItem(line, "realdamage")
    /\ event.source # event.target
    /\ \E b \in LineBuckets :
        /\ StoredAt(users, event.source, "damage", UserKey(event.target), b) = 130
        /\ StoredAt(users, event.source, "realdamage", UserKey(event.target), b) = 120

\* C5: a tournament-mode-start event, after whatever came before, leaves
\* every registered player with every store empty, the registry with the
\* same keys on the same players, each player's name, team, original team,
\* class and played classes as they were, and the World's first timestamp
\* equal to the timestamp of the event.
C5_Tournament ==
    /\ Stepped
    /\ line'.form = "tournament"

C5_Effect ==
    /\ raised' = "none"
    /\ known_users' = known_users
    /\ DOMAIN users' = DOMAIN users
    /\ \A id \in DOMAIN users' :
        /\ \A c \in CounterNames : users'[id].counters[c] = << >>
        /\ users'[id].name = users[id].name
        /\ users'[id].team = users[id].team
        /\ users'[id].original_team = users[id].original_team
        /\ users'[id].player_class = users[id].player_class
        /\ users'[id].played_classes = users[id].played_classes
    /\ event'.timestamp = Some(LineTime(line'))
    /\ first_timestamp' = event'.timestamp

C5_TournamentResets == [][C5_Tournament => C5_Effect]_vars

\* Tournament mode starts after a kill by a player who has picked a class.
C5_Witness ==
    /\ nlines = MaxLines
    /\ event.cls = "TournamentModeLine"
    /\ \E id \in DOMAIN users :
        /\ users[id].played_classes # {}
        /\ users[id].counters["seen"] = << >>
    /\ Cardinality(DOMAIN known_users) = 2

\* C6: lookups of valid mentions with the same identity key return the same
\* player, the one registered at the first mention, and after a lookup the
\* name and the team of that player are those of the mention.  (A team-join
\* line assigns its own team after its lookup.)
C6_Lookup(W, frag) ==
    LET r == user_lookup(W, frag)
        k == frag.steam_id
    IN  /\ k \in DOMAIN W.known_users => r.ret = W.known_users[k]
        /\ r.ret = r.w.known_users[k]
        /\ \A j \in DOMAIN W.known_users :
               r.w.known_users[j] = W.known_users[j]
        /\ r.w.users[r.ret].name = frag.username
        /\ r.w.users[r.ret].team = frag.team

C6_Effect ==
    /\ \A m \in { f \in SayMentions : f.steam_id \in SteamIdStrings } :
           C6_Lookup(parse_timestamp(World, LineTime(line')), m)
    /\ \A k \in DOMAIN known_users :
           k \in DOMAIN known_users' /\ known_users'[k] = known_users[k]
    /\ \A i \in DOMAIN Lookups(line') :
           Lookups(line')[i].steam_id \in SteamIdStrings =>
               (IF i = 1 THEN event'.source ELSE event'.target)
                   = known_users'[Lookups(line')[i].steam_id]
    /\ \A k \in MentionedKeys(line') :
        /\ users'[known_users'[k]].name = LastMention(line', k).username
        /\ users'[known_users'[k]].team =
               IF line'.form = "jointeam" THEN line'.team
               ELSE LastMention(line', k).team

C6_SameKeySamePlayer == [][Stepped => C6_Effect]_vars

\* A later mention of the first key, under another name and team and after
\* another player was registered, finds the player of the first mention.
C6_Witness ==
    /\ nlines = MaxLines
    /\ event.cls = "SayLine"
    /\ event.source = 1
    /\ users[1].name = "Al"
    /\ users[1].team = "Blue"
    /\ users[1].counters["seen"] # << >>
    /\ Cardinality(DOMAIN known_users) = 2

\* C7: once a player's original team is Red or Blue no event changes it;
\* while it is neither, a lookup sets it to the team of that mention.
C7_Effect ==
    /\ \A id \in DOMAIN users :
           users[id].original_team \in { "Red", "Blue" } =>
               users'[id].original_team = users[id].original_team
    /\ \A k \in MentionedKeys(line') :
           (k \in DOMAIN known_users =>
                users[known_users[k]].original_team \notin { "Red", "Blue" })
               => users'[known_users'[k]].original_team
                      = LastMention(line', k).team

C7_OriginalTeamSticky == [][Stepped => C7_Effect]_vars

\* A player first seen as a spectator, then on Red, is mentioned on Blue.
C7_Witness ==
    /\ nlines = MaxLines
    /\ event.cls = "SayLine"
    /\ line.source_user.team = "Blue"
    /\ event.source \in DOMAIN users
    /\ users[event.source].original_team = "Red"
    /\ users[event.source].team = "Blue"
    /\ users[event.source].counters["seen"] # << >>

\* C8: the lookup of a fragment that is no user mention returns the invalid
\* User, raises nothing and leaves the registry and every player as it was.
C8_InvalidLookup ==
    /\ Stepped
    /\ line'.form \in { "say", "jointeam" }
    /\ line'.source_user = Eve

C8_Effect ==
    /\ user_lookup(World, Eve) = [ w |-> World, ret |-> Invalid ]
    /\ event'.source = Invalid
    /\ raised' = "none"
    /\ known_users' = known_users
    /\ users' = users
    /\ next_id' = next_id

C8_InvalidLookupIsInert == [][C8_InvalidLookup => C8_Effect]_vars

\* A line with an invalid source has been handled in a World with players.
C8_Witness ==
    /\ line.form = "say"
    /\ line.source_user = Eve
    /\ event.cls = "SayLine"
    /\ event.source = Invalid
    /\ known_users # << >>
    /\ raised = "none"

\* C9: identify raises on no raw line, the empty line and the bare newline
\* included, and on a line no shape matches it returns the unmatched event.
C9_IdentifyNeverRaises ==
    (nlines > 0 /\ line.form \in { "empty", "other" }) =>
        /\ raised = "none"
        /\ line.form = "other" => (event.cls = "Line" /\ ~event.matched)

\* C9, the part the code keeps: a line no pattern matches, the empty pattern
\* "$" included, gives the unmatched event and raises nothing.
C9_UnmatchedIsNoOp ==
    (nlines > 0 /\ line.form = "other") =>
        /\ raised = "none"
        /\ event.cls = "Line"
        /\ ~event.matched

\* C10: a line that matches a shape, with a source or target that is no user
\* mention or with a payload that lacks or mistypes a field, is handled
\* without a raise, and the lines after it are handled.
C10_ShapeLineNeverRaises ==
    (nlines > 0 /\ line.form \in { ShapeForm[cls] : cls \in Shapes }) =>
        raised = "none"

\* What a caller of identify observes of one outcome: the exception, or the
\* class of the event returned, and the World either way.
Observed(out) ==
    [ cls |-> IF out.w.exc # "none" THEN out.w.exc ELSE out.e.cls,
      w   |-> out.w ]

\* The shapes whose pattern accepts the line.
Matching(l) == { cls \in Shapes : matcher(cls, l) }

\* C11: for every raw line at most one shape's pattern matches, so the type
\* of the event identify returns and the effects on the World do not depend
\* on the order in which the shapes are tried.
C11_OrderIndependent ==
    [][Stepped =>
        /\ Cardinality(Matching(line')) <= 1
        /\ Cardinality({ Observed(out) : out \in identify(World, line') }) = 1
      ]_vars

\* C11 as the code has it: a line that at most one shape matches gives one
\* outcome whatever the order, the event of that subclass or the unmatched
\* event of Line; a line that ServerCvarLine matches together with another
\* shape gives the event and the effects of whichever is tried first.
C11_SingleMatchDecides ==
    [][Stepped =>
        /\ Cardinality(Matching(line')) <= 1 =>
              /\ Cardinality({ Observed(out) : out \in identify(World, line') }) = 1
              /\ raised' = "none" =>
                    event'.cls = IF Matching(line') = {} THEN "Line"
                                 ELSE CHOOSE cls \in Matching(line') : TRUE
        /\ line'.form = "say_eq" =>
              /\ Matching(line') = QuotedEqualsShapes
              /\ { out.e.cls : out \in identify(World, line') } = QuotedEqualsShapes
      ]_vars

\* After a line of one shape, a say line with " = " in its text was taken
\* for a server cvar: its player, mentioned for the first time, is not
\* registered.
C11_Witness ==
    /\ nlines = 2
    /\ raised = "none"
    /\ line.form = "say_eq"
    /\ line.source_user = Bob
    /\ event.cls = "ServerCvarLine"
    /\ DOMAIN known_users = { Alice.steam_id }

\* The bucket a read or a bound call addresses.
CallBucket == floor_time(series.interval, call.key)

\* Both bounds are set and b lies within them.
InBounds(s, b) ==
    /\ s.first_timestamp # None
    /\ s.last_timestamp # None
    /\ Val(s.first_timestamp) <= b
    /\ b <= Val(s.last_timestamp)

\* The last call was a read with a datetime key.
ReadDone == call.op = "getitem" /\ call.keytype = "datetime"

\* C12: in every series state reached by writes, set_start and set_end, the
\* state with unset bounds included, reading a timestamp whose bucket is not
\* stored and not within [first, last] raises KeyError and returns no
\* default.
C12_OutOfBoundsIsKeyError ==
    (ReadDone /\ CallBucket \notin DOMAIN series.values
              /\ ~InBounds(series, CallBucket))
        => call.exc = "KeyError"

\* C12, the part the code keeps: with both bounds set such a read raises
\* KeyError; with a bound unset it raises KeyError or TypeError, and never
\* returns.
C12_OutOfBoundsNeverReturns ==
    (ReadDone /\ CallBucket \notin DOMAIN series.values
              /\ ~InBounds(series, CallBucket))
        => /\ call.exc \in { "KeyError", "TypeError" }
           /\ (series.first_timestamp # None /\ series.last_timestamp # None)
                  => call.exc = "KeyError"

\* C13: reading a bucket within [first, last] yields a value: the stored
\* value if the bucket is stored; otherwise 0 in default mode and, in
\* carry-forward mode, the value of the greatest stored bucket earlier than
\* the one read, 0 if there is none.
C13_Expected(s, b) ==
    LET earlier == { k \in DOMAIN s.values : k < b }
    IN  IF b \in DOMAIN s.values THEN s.values[b]
        ELSE IF s.keep_last_value /\ earlier # {}
        THEN s.values[CHOOSE k \in earlier : \A j \in earlier : j <= k]
        ELSE 0

C13_InBoundsReadYields ==
    (ReadDone /\ InBounds(series, CallBucket))
        => /\ call.exc = "none"
           /\ call.value = C13_Expected(series, CallBucket)

\* A carry-forward read after two stored buckets gave the value of the
\* later of them.
C13_Witness ==
    /\ ReadDone
    /\ series.keep_last_value
    /\ InBounds(series, CallBucket)
    /\ CallBucket \notin DOMAIN series.values
    /\ \E k1, k2 \in DOMAIN series.values :
        /\ k1 < k2
        /\ k2 < CallBucket
        /\ series.values[k1] = 1
        /\ series.values[k2] = 2
    /\ call.value = 2

\* The last call was len(series) or list(series).
LengthDone == call.op = "len"

IterateDone == call.op = "iter"

\* The keys first, first + interval, ..., last.
C14_Grid(s) ==
    LET delta == s.interval * TicksPerSecond
        n     == (Val(s.last_timestamp) - Val(s.first_timestamp)) \div delta + 1
    IN  [ i \in 1 .. n |-> Val(s.first_timestamp) + (i - 1) * delta ]

C14_Length(s) ==
    IF s.first_timestamp = None \/ s.last_timestamp = None THEN 0
    ELSE (Val(s.last_timestamp) - Val(s.first_timestamp))
             \div (s.interval * TicksPerSecond) + 1

\* C14: in every series state reached by writes, set_start and set_end,
\* length() is 0 when a bound is unset and (last - first) / interval + 1
\* otherwise, and it is the number of distinct timestamps iterate() yields,
\* which are exactly first, first + interval, ..., last.
C14_LengthCountsIterate ==
    /\ LengthDone =>
        /\ call.exc = "none"
        /\ call.value = C14_Length(series)
        /\ iter(series).exc = "none"
        /\ call.value =
               Cardinality({ iter(series).keys[i] : i \in DOMAIN iter(series).keys })
    /\ IterateDone =>
        /\ call.exc = "none"
        /\ len(series).exc = "none"
        /\ Len(call.keys) = len(series).value
        /\ (series.first_timestamp # None /\ series.last_timestamp # None)
               => call.keys = C14_Grid(series)

\* C14, the part the code keeps: the same in every state whose bounds are
\* unset or in order.
C14_OrderedBoundsLength ==
    (series.first_timestamp = None \/ series.last_timestamp = None
        \/ Val(series.first_timestamp) <= Val(series.last_timestamp))
        => C14_LengthCountsIterate

\* C15: set_start(t) never increases first and set_end(t) never decreases
\* last; each leaves the other bound and every stored value as it was; a
\* call whose floored timestamp lies inside the current bounds changes
\* nothing.
C15_BoundCall ==
    /\ ops' = ops + 1
    /\ call'.op \in { "set_start", "set_end" }

C15_Effect ==
    LET b == floor_time(series.interval, call'.key)
    IN  /\ series'.values = series.values
        /\ call'.op = "set_start" =>
            /\ series'.last_timestamp = series.last_timestamp
            /\ series'.first_timestamp # None
            /\ series.first_timestamp # None =>
                   Val(series'.first_timestamp) <= Val(series.first_timestamp)
        /\ call'.op = "set_end" =>
            /\ series'.first_timestamp = series.first_timestamp
            /\ series'.last_timestamp # None
            /\ series.last_timestamp # None =>
                   Val(series'.last_timestamp) >= Val(series.last_timestamp)
        /\ InBounds(series, b) => series' = series

C16_BadWrite ==
    /\ ops' = ops + 1
    /\ call'.op = "setitem"
    /\ call'.keytype # "datetime" \/ call'.valtype # "int"

C16_Effect ==
    /\ call'.exc = IF call'.keytype # "datetime" THEN "TypeError" ELSE "ValueError"
    /\ series'.first_timestamp = series.first_timestamp
    /\ series'.last_timestamp = series.last_timestamp
    /\ series'.values = series.values

C16_BadWriteRejected == [][C16_BadWrite => C16_Effect]_vars

\* A float was refused by a series that holds values.
C16_Witness ==
    /\ call.op = "setitem"
    /\ call.keytype = "datetime"
    /\ call.valtype = "float"
    /\ call.exc = "ValueError"
    /\ CallBucket \notin DOMAIN series.values
    /\ Cardinality(DOMAIN series.values) = 2

\* The series after the writes of a sequence of (key, value) pairs.
RECURSIVE Written(_, _)
Written(s, writes) ==
    IF writes = << >> THEN s
    ELSE Written(setitem_store(s, Head(writes)[1], Head(writes)[2]), Tail(writes))

C17_Pairs == SeriesTimes \X SeriesValues

\* C17: for a series with the sum aggregator, two permutations of the same
\* writes give the same stored buckets, the same values and the same bounds:
\* every order of any three writes on a new series, and either order of any
\* two writes on any series reached with two calls to spare.
C17_SumOrderIndependent ==
    series.aggregator = "sum" =>
        /\ ops = 0 =>
            \A a, b, c \in C17_Pairs :
                LET r == Written(series, << a, b, c >>)
                IN  /\ r = Written(series, << a, c, b >>)
                    /\ r = Written(series, << b, a, c >>)
                    /\ r = Written(series, << b, c, a >>)
                    /\ r = Written(series, << c, a, b >>)
                    /\ r = Written(series, << c, b, a >>)
        /\ ops + 2 <= MaxOps =>
            \A a, b \in C17_Pairs :
                Written(series, << a, b >>) = Written(series, << b, a >>)

\* Three writes, two of different values into one bucket, were summed.
C17_Witness ==
    /\ ops = 3
    /\ call.op = "setitem"
    /\ call.exc = "none"
    /\ series.aggregator = "sum"
    /\ Cardinality(DOMAIN series.values) = 2
    /\ \E b \in DOMAIN series.values : series.values[b] = 3

\* The last call listed totals.items().
TotalsDone == call.op = "totals_items"

\* Every child of the Counter has the same first and the same last bound.
SharedBounds ==
    \A i \in 1 .. Len(Children) :
        /\ Children[i].first_timestamp = Children[1].first_timestamp
        /\ Children[i].last_timestamp = Children[1].last_timestamp

\* The sum over the children of each child's gap-filled read of the bucket
\* at offset k buckets from `from(child)`.
RECURSIVE ReadsTotal(_, _, _)
ReadsTotal(children, from(_), k) ==
    IF children = << >> THEN 0
    ELSE C13_Expected(Head(children),
                      from(Head(children))
                          + k * Head(children).interval * TicksPerSecond)
             + ReadsTotal(Tail(children), from, k)

DivergentBounds == counter_order # << >> /\ ~SharedBounds

\* The number of buckets of the child with the fewest.
RECURSIVE FewestBuckets(_)
FewestBuckets(children) ==
    IF Len(children) = 1 THEN C14_Length(children[1])
    ELSE LET rest == FewestBuckets(Tail(children))
         IN  IF C14_Length(children[1]) < rest THEN C14_Length(children[1])
             ELSE rest

C20_PresenceLine ==
    /\ Stepped
    /\ line'.form \in { "say", "connected", "validated", "changename",
                        "disconnected" }

\* C20 as stated: such a line leaves every counter of every player, "seen"
\* included, as it was, whether the player is mentioned for the first time
\* or again.
C20_Unwritten ==
    \A id \in DOMAIN users' :
        \A cname \in CounterNames :
            CounterOf(users', id, cname) = CounterOf(users, id, cname)

C20_NoMetricWrite == [][C20_PresenceLine => C20_Unwritten]_vars

\* C20, what the code does: such a line leaves every counter other than
\* "seen" of every player as it was; the player it registers has no key in
\* any counter; a player it does not mention keeps "seen" too; and for a
\* registered player it mentions, "seen" has the one key "user_lookup",
\* whose bucket of the line's time is 1 more and whose other buckets are as
\* they were.
C20_Effect ==
    LET source == line'.source_user.steam_id
        again  == source \in MentionedKeys(line') /\ source \in DOMAIN known_users
        bucket == ClaimBucket(UserInterval, line'.seconds * TicksPerSecond)
    IN  \A id \in DOMAIN users' :
            /\ \A cname \in CounterNames \ { "seen" } :
                   CounterOf(users', id, cname) = CounterOf(users, id, cname)
            /\ IF again /\ id = known_users[source]
               THEN /\ DOMAIN CounterOf(users', id, "seen")
                           = { StrKey("user_lookup") }
                    /\ AddsOnlyAt(id, "seen", StrKey("user_lookup"), bucket, 1)
               ELSE CounterOf(users', id, "seen") = CounterOf(users, id, "seen")

C20_OnlySeenWritten == [][C20_PresenceLine => C20_Effect]_vars

\* A disconnect of a player registered two lines earlier and mentioned
\* again since: one sighting recorded in each of two buckets, no other
\* counter with a key.
C20_Witness ==
    /\ nlines = MaxLines
    /\ line.form = "disconnected"
    /\ event.cls = "PlayerDisconnectedLine"
    /\ event.source \in DOMAIN users
    /\ DOMAIN users[event.source].counters["seen"] = { StrKey("user_lookup") }
    /\ \A cname \in CounterNames \ { "seen" } :
           users[event.source].counters[cname] = << >>
    /\ \E b1, b2 \in LineBuckets :
        /\ b1 < b2
        /\ StoredAt(users, event.source, "seen", StrKey("user_lookup"), b1) = 1
        /\ StoredAt(users, event.source, "seen", StrKey("user_lookup"), b2) = 1

\* The last call was a membership test.
ContainsDone == call.op = "contains"

\* C23: `ts in series` raises nothing; it is false for a key that is no
\* datetime and, for a datetime, true exactly when the floored timestamp
\* lies within [first, last].
C23_MembershipWithinBounds ==
    ContainsDone =>
        /\ call.exc = "none"
        /\ call.found = (/\ call.keytype = "datetime"
                         /\ InBounds(series, CallBucket))

\* C23, the part the code keeps: a key that is no datetime is reported
\* absent without an exception.
C23_NonDatetimeAbsent ==
    (ContainsDone /\ call.keytype # "datetime") =>
        (call.exc = "none" /\ ~call.found)

\* C24: whenever both bounds of the series are set, first <= last.
C24_BoundsOrdered ==
    (series.first_timestamp # None /\ series.last_timestamp # None)
        => Val(series.first_timestamp) <= Val(series.last_timestamp)

\* C24, the part the code keeps: a series that has a stored value has its
\* bounds in order, with every stored bucket between them.
C24_WrittenBoundsOrdered ==
    series.values # << >> =>
        /\ C24_BoundsOrdered
        /\ \A b \in DOMAIN series.values : InBounds(series, b)

\* C25: handling a line that matches no shape leaves the World as it was:
\* the registry, every player (fields and counters), the file name, the map
\* name, the team names and the current, first and last timestamps; the
\* call raises nothing and returns the unmatched event.  The empty line,
\* which only the inherited pattern "$" matches, leaves the World as it was
\* too.
C25_WorldKept ==
    /\ known_users' = known_users
    /\ users' = users
    /\ next_id' = next_id
    /\ filename' = filename
    /\ mapname' = mapname
    /\ team_names' = team_names
    /\ timestamp' = timestamp
    /\ first_timestamp' = first_timestamp
    /\ last_timestamp' = last_timestamp

C25_Effect ==
    /\ line'.form \in { "other", "empty" } => C25_WorldKept
    /\ line'.form = "other" =>
        /\ raised' = "none"
        /\ event'.cls = "Line"
        /\ ~event'.matched

C25_UnmatchedLeavesWorld == [][Stepped => C25_Effect]_vars

\* A line no shape matches was handled in a World with a registered player,
\* a current and a last timestamp.
C25_Witness ==
    /\ nlines = MaxLines
    /\ line.form = "other"
    /\ event.cls = "Line"
    /\ ~event.matched
    /\ known_users # << >>
    /\ timestamp # None
    /\ last_timestamp # None

\* The first of integer, float, float with a trailing f, user reference
\* and Location that a payload value is, "str" when it is none of them.
C21_Kind(raw) ==
    IF IsText(raw) /\ raw.username \in DOMAIN IntValue THEN "int"
    ELSE IF IsText(raw) /\ raw.username \in FloatStrings THEN "float"
    ELSE IF IsText(raw) /\ raw.username \in FloatFStrings THEN "float"
    ELSE IF raw.server_id \in DigitStrings /\ raw.steam_id \in SteamIdStrings
    THEN "user"
    ELSE IF IsText(raw) /\ raw.username \in LocationStrings THEN "Location"
    ELSE "str"

\* This step handles a server cvar line.
C21_CvarLine == Stepped /\ line'.form = "cvar"

\* C21: the value of the line's payload becomes the first that succeeds of
\* integer, float, float without its trailing f, user reference and Location,
\* and otherwise stays the raw string; nothing is raised.  A value that is a
\* number, a Location or a raw string leaves the registry and every player
\* as they were; a user reference is the registered player of its steam id.
C21_Effect ==
    LET raw  == line'.items[1].value
        v    == event'.data[line'.items[1].name]
        kind == C21_Kind(raw)
    IN  /\ raised' = "none"
        /\ DOMAIN event'.data = { line'.items[1].name }
        /\ v.type = kind
        /\ kind = "int" => v.int = IntValue[raw.username]
        /\ kind \in { "float", "Location", "str" } => v.str = raw.username
        /\ kind = "user" =>
            /\ raw.steam_id \in DOMAIN known_users'
            /\ v.user = known_users'[raw.steam_id]
            /\ users'[v.user].name = raw.username
        /\ kind # "user" =>
            /\ known_users' = known_users
            /\ users' = users
            /\ next_id' = next_id

C21_CoercionCascade == [][C21_CvarLine => C21_Effect]_vars

\* A cvar line whose value is an integer was handled in a World with a
\* registered player, and the value is the integer.
C21_Witness ==
    /\ nlines > 1
    /\ line.form = "cvar"
    /\ line.items[1].name = "sv_tags"
    /\ line.items[1].value = Frag("30")
    /\ event.cls = "ServerCvarLine"
    /\ event.data["sv_tags"].type = "int"
    /\ event.data["sv_tags"].int = 30
    /\ known_users # << >>

\* A cvar line whose value is a mention registered its player.
C21_UserWitness ==
    /\ nlines = 1
    /\ line.form = "cvar"
    /\ line.items[1].value = Alice
    /\ event.data["sv_tags"].type = "user"
    /\ DOMAIN known_users = { Alice.steam_id }

\* The objects reachable from those of S by one reference or more.
RECURSIVE ReachedIn(_, _)
ReachedIn(S, n) ==
    IF n = 0 THEN {}
    ELSE LET next == UNION { { heap[a].things[i] :
                                 i \in 1 .. Len(heap[a].things) } : a \in S }
         IN  next \cup ReachedIn(next, n - 1)

\* The graph serialized: the root of the dumps and what it reaches.
Graph == { document.root } \cup ReachedIn({ document.root }, MaxObjects)

\* It contains a cycle: an object reachable from itself.
Cyclic == \E o \in Graph : o \in ReachedIn({ o }, MaxObjects)

\* Every object of it has repr_json and from_json.
Serializable == \A o \in Graph : heap[o].cls \in HasReprJson

\* The decoded graph has the structure of the original: each object
\* corresponds to one decoded object of its class, distinct objects to
\* distinct ones, and each reference of an object to the same reference of
\* its decoded object.
SameStructure ==
    LET m == loaded.decoded
    IN  /\ Graph \subseteq DOMAIN m
        /\ loaded.root = m[document.root]
        /\ \A o, p \in Graph : m[o] = m[p] => o = p
        /\ \A o \in Graph :
            /\ loaded.heap[m[o]].cls = heap[o].cls
            /\ loaded.heap[m[o]].things =
                   [ i \in 1 .. Len(heap[o].things) |-> m[heap[o].things[i]] ]

\* C22: serializing with Encoder a graph that contains a cycle raises
\* nothing, and deserializing the text with Decoder raises nothing and
\* yields a graph of the same structure, every back-reference resolved to
\* the decoded object of the first occurrence.
C22_CycleRoundTrip ==
    (document.op = "dumps" /\ Serializable /\ Cyclic) =>
        /\ document.exc = "none"
        /\ loaded.op = "loads" => (loaded.exc = "none" /\ SameStructure)

\* C22, the part the code keeps: a graph without a cycle, objects referred
\* to more than once included, is serialized and deserialized into a graph
\* of the same structure.
C22_AcyclicRoundTrip ==
    (document.op = "dumps" /\ Serializable /\ ~Cyclic) =>
        /\ document.exc = "none"
        /\ loaded.op = "loads" => (loaded.exc = "none" /\ SameStructure)

\* C22, the cycle with and without check_circular: with it the Encoder
\* raises ValueError; without it the Encoder ends with a text, on which the
\* Decoder raises KeyError.
C22_CycleFails ==
    (document.op = "dumps" /\ Serializable /\ Cyclic) =>
        /\ document.check_circular => document.exc = "ValueError"
        /\ ~document.check_circular =>
            /\ document.exc = "none"
            /\ loaded.op = "loads" => loaded.exc = "KeyError"

\* C22, the Player graph: an object of a class without repr_json is not
\* serialized at all.
C22_PlayerNotSerializable ==
    (document.op = "dumps" /\ heap[document.root].cls \notin HasReprJson) =>
        document.exc = "TypeError"

====
